---- MODULE Spec2Model ----
(***************************************************************************)
(* Model of the sprint scheduling engine of daplug                         *)
(* (skills/sprint/scripts/sprint.py): Kahn levelling of the dependency     *)
(* graph (_topo_phases), the persisted SprintState, the subcommands that   *)
(* rewrite it, and the batch dispatcher auto_execute with its worker       *)
(* processes; the state-file write path (save_state / load_state); and the  *)
(* verification retry loop of the prompt executor                          *)
(* (skills/prompt-executor/scripts/executor.py): check_completion_marker   *)
(* and run_verification_loop with its persisted LoopState.                 *)
(***************************************************************************)
EXTENDS Integers, Sequences, FiniteSets, TLC

\* ---------------------------------------------------------------- bounds

\* Identifiers a run may hold (001 .. MaxItems as zero-padded strings in the code).
MaxItems == 3
\* Number of prompts a plan is created with.
InitItems == 2
\* Largest --max-parallel value explored.
MaxParallel == 2
\* Longest transcript (in tokens) handed to check_completion_marker.
MaxLog == 4
\* Largest --max-iterations value explored.
MaxIter == 3
\* Number of save_state calls explored.
MaxSaves == 3
\* Number of write(2) calls a state document takes.
DocChunks == 2

Ids == 1..MaxItems

VARIABLES
    \* --- levelling harness (_topo_phases applied to drawn inputs)
    t_nodes,        \* the node list passed to _topo_phases
    t_deps,         \* the dependency map passed to _topo_phases
    t_out,          \* <<phases, leftovers>> once the function has returned
    \* --- the run
    disk,           \* the state file (.sprint-state.json)
    files,          \* per prompt file: the identifiers its text declares as dependencies
    pc,             \* position of the coordinating process
    mem,            \* the coordinator's in-memory SprintState
    options,        \* the options dict auto_execute was called with
    phase_index,    \* local of auto_execute
    runnable,       \* local of auto_execute: pending prompts of the phase
    bi,             \* local of auto_execute: start index i of the current batch
    procs,          \* local of auto_execute: the batch's (prompt, Popen) list
    wi,             \* how many entries of procs have been waited for
    proc,           \* worker processes: "none" | "running" | "ok" | "fail"
    outcome,        \* how the last auto_execute ended
    hist,           \* observation of the current invocation (no effect on behaviour)
    \* --- marker harness (check_completion_marker applied to drawn transcripts)
    m_log,          \* the content of the log file, or NoLog
    m_out,          \* (marker_found, retry_reason) once the function has returned
    \* --- the verification retry loop of one prompt
    l_file,         \* the loop state file (~/.claude/loop-state/<prompt>.json)
    l_fs,           \* the file system: what each working-directory path is
    l_pc,           \* position of the loop process
    l_cont,         \* where the process goes on after the save in progress
    l_args,         \* the parameters of the current invocation
    l_state,        \* the process's in-memory state dict
    l_result,       \* the result dict being built / returned
    l_obs,          \* observation of the current invocation (no effect on behaviour)
    \* --- processes saving and loading one sprint state file
    s_dir,          \* the directory: the inode each file name refers to (0: no such file)
    s_ino,          \* the content of each inode, as the chunks written so far
    s_lock,         \* the process holding the flock on the lock file (0: nobody)
    s_pc,           \* position of each saving process inside save_state
    s_ver,          \* the document each saving process is writing
    s_next,         \* the next document / inode number
    s_rd,           \* the loading process: position, open inode, text read
    s_installed,    \* observation: the documents the state file has held
    \* --- single functions applied to drawn arguments
    h_in,           \* the arguments of the call
    h_out           \* what the call returned, once it has

topoVars == <<t_nodes, t_deps, t_out>>
markVars == <<m_log, m_out>>
loopVars == <<l_file, l_fs, l_pc, l_cont, l_args, l_state, l_result, l_obs>>
\* everything that is not part of a sprint run
saveVars == <<s_dir, s_ino, s_lock, s_pc, s_ver, s_next, s_rd, s_installed>>
callVars == <<h_in, h_out>>
outsideRun == <<topoVars, markVars, loopVars, saveVars, callVars>>
runVars == <<disk, files, pc, mem, options, phase_index, runnable, bi, procs, wi,
             proc, outcome, hist>>
vars == <<t_nodes, t_deps, t_out, disk, files, pc, mem, options, phase_index,
          runnable, bi, procs, wi, proc, outcome, hist, m_log, m_out,
          l_file, l_fs, l_pc, l_cont, l_args, l_state, l_result, l_obs,
          s_dir, s_ino, s_lock, s_pc, s_ver, s_next, s_rd, s_installed, h_in, h_out>>

\* ------------------------------------------------------------ helpers

Range(s) == {s[k] : k \in 1..Len(s)}

Min(a, b) == IF a < b THEN a ELSE b

Max(a, b) == IF a > b THEN a ELSE b

\* sorted(): identifiers are three-digit zero-padded strings, so the
\* lexicographic order of the code is the numeric order.
RECURSIVE sorted(_)
sorted(S) ==
    IF S = {} THEN <<>>
    ELSE LET m == CHOOSE x \in S : \A y \in S : x <= y
         IN <<m>> \o sorted(S \ {m})

\* deps.get(n, [])
DepsGet(deps, n) == IF n \in DOMAIN deps THEN deps[n] ELSE {}

\* ------------------------------------------------------- _topo_phases

\* TopoLoop without the in-degree update of line 868.
RECURSIVE TopoLoop_NoDecrement(_, _, _)
TopoLoop_NoDecrement(remaining, incoming, phases) ==
    IF remaining = {} THEN <<phases, remaining>>
    ELSE LET ready == {n \in remaining : incoming[n] = {}}
         IN IF ready = {} THEN <<phases, remaining>>
            ELSE TopoLoop_NoDecrement(remaining \ ready, incoming,
                                      Append(phases, sorted(ready)))

\* TopoLoop that breaks a cycle by releasing the smallest stuck node.
RECURSIVE TopoLoop_BreakCycle(_, _, _)
TopoLoop_BreakCycle(remaining, incoming, phases) ==
    IF remaining = {} THEN <<phases, remaining>>
    ELSE LET free == {n \in remaining : incoming[n] = {}}
             ready == IF free = {}
                      THEN {CHOOSE x \in remaining : \A y \in remaining : x <= y}
                      ELSE free
             rest == remaining \ ready
             inc2 == [n \in DOMAIN incoming |->
                         IF n \in rest THEN incoming[n] \ ready ELSE incoming[n]]
         IN TopoLoop_BreakCycle(rest, inc2, Append(phases, sorted(ready)))

\* The while loop of _topo_phases: one round per recursion.
RECURSIVE TopoLoop(_, _, _)
TopoLoop(remaining, incoming, phases) ==
    IF remaining = {} THEN <<phases, remaining>>
    ELSE LET ready == {n \in remaining : incoming[n] = {}}
         IN IF ready = {} THEN <<phases, remaining>>
            ELSE LET rest == remaining \ ready
                     inc2 == [n \in DOMAIN incoming |->
                                 IF n \in rest THEN incoming[n] \ ready
                                 ELSE incoming[n]]
                 IN TopoLoop(rest, inc2, Append(phases, sorted(ready)))

_topo_phases(nodes, deps) ==
    LET r == TopoLoop(Range(nodes),
                      [n \in Range(nodes) |-> DepsGet(deps, n)],
                      <<>>)
    IN <<r[1], sorted(r[2])>>

\* ids, phases = sorted(ids), _topo_phases(...); leftovers become the last phase.
generate_execution_plan(ids, deps) ==
    LET r == _topo_phases(sorted(ids), deps)
    IN IF r[2] # <<>> THEN Append(r[1], r[2]) ELSE r[1]

\* ------------------------------------------------------- SprintState

PROMPT_STATUSES == {"pending", "in_progress", "completed", "failed", "skipped"}

None == "None"

\* _now_iso(): the model keeps only that a timestamp was written.
_now_iso == "ts"

\* A prompt as plan creation and cmd_add write it: the keys started_at and
\* finished_at are missing, which p.get reads as None.
NewPrompt == [status |-> "pending", started_at |-> None, finished_at |-> None]

\* The exception update_prompt_status raises, None when it returns.
update_prompt_status_raises(s, pid, status) ==
    IF status \notin PROMPT_STATUSES THEN "ValueError"
    ELSE IF pid \notin DOMAIN s.prompts THEN "KeyError"
    ELSE None

\* update_prompt_status that stamps started_at every time.
update_prompt_status_Restamp(s, pid, status) ==
    IF update_prompt_status_raises(s, pid, status) # None THEN s
    ELSE [s EXCEPT !.prompts[pid].status = status,
                   !.prompts[pid].started_at =
                       IF status = "in_progress" THEN _now_iso ELSE @,
                   !.prompts[pid].finished_at =
                       IF status \in {"completed", "failed", "skipped"} THEN _now_iso ELSE @]

\* The state after the call (the state as it was when the call raises).
update_prompt_status(s, pid, status) ==
    IF update_prompt_status_raises(s, pid, status) # None THEN s
    ELSE [s EXCEPT !.prompts[pid].status = status,
                   !.prompts[pid].started_at =
                       IF status = "in_progress" /\ @ = None THEN _now_iso ELSE @,
                   !.prompts[pid].finished_at =
                       IF status \in {"completed", "failed", "skipped"} THEN _now_iso ELSE @]

RECURSIVE MarkAll(_, _, _)
MarkAll(s, batch, status) ==
    IF batch = <<>> THEN s
    ELSE MarkAll(update_prompt_status(s, Head(batch), status), Tail(batch), status)

\* cmd_replan that leaves the pointer where it was.
cmd_replan_NoClamp(s, f) ==
    LET ids == DOMAIN s.prompts
        deps == [p \in ids |-> f[p] \ {p}]
        live == {p \in ids : s.prompts[p].status # "skipped"}
        phases == generate_execution_plan(live, deps)
    IN [s EXCEPT !.dependencies = deps, !.phases = phases,
                 !.total_phases = Len(phases)]

\* cmd_replan that levels every prompt, the skipped ones included.
cmd_replan_KeepSkipped(s, f) ==
    LET ids == DOMAIN s.prompts
        deps == [p \in ids |-> f[p] \ {p}]
        phases == generate_execution_plan(ids, deps)
        tp == Len(phases)
        cp1 == IF s.current_phase < 1 THEN 1 ELSE s.current_phase
        cp2 == IF cp1 > tp + 1 THEN tp + 1 ELSE cp1
    IN [s EXCEPT !.dependencies = deps, !.phases = phases,
                 !.total_phases = tp, !.current_phase = cp2]

\* cmd_replan: dependencies re-read from the prompt files (self-references
\* dropped), phases rebuilt from the prompts that are not skipped, pointer clamped.
cmd_replan(s, f) ==
    LET ids == DOMAIN s.prompts
        deps == [p \in ids |-> f[p] \ {p}]
        live == {p \in ids : s.prompts[p].status # "skipped"}
        phases == generate_execution_plan(live, deps)
        tp == Len(phases)
        cp1 == IF s.current_phase < 1 THEN 1 ELSE s.current_phase
        cp2 == IF cp1 > tp + 1 THEN tp + 1 ELSE cp1
    IN [s EXCEPT !.dependencies = deps, !.phases = phases,
                 !.total_phases = tp, !.current_phase = cp2]

\* ------------------------------------------------ auto_execute: pieces

\* Runnable that only leaves out what is running or removed.
Runnable_NotInProgress(s, phase) ==
    SelectSeq(phase, LAMBDA pid : s.prompts[pid].status \notin {"in_progress", "skipped"})

\* runnable: the prompts of the phase whose status is pending, in phase order.
Runnable(s, phase) ==
    SelectSeq(phase, LAMBDA pid : s.prompts[pid].status = "pending")

\* Batch with a slice one too long.
Batch_OffByOne(run, i, max_parallel) ==
    SubSeq(run, i + 1, Min(i + max_parallel + 1, Len(run)))

\* batch = runnable[i : i + max_parallel]
Batch(run, i, max_parallel) ==
    SubSeq(run, i + 1, Min(i + max_parallel, Len(run)))

\* BatchFailed that looks at the last prompt of the batch only.
BatchFailed_LastOnly(s, batch) ==
    batch # <<>> /\ s.prompts[batch[Len(batch)]].status = "failed"

\* any(p.get("status") == "failed" for p in batch)
BatchFailed(s, batch) ==
    \E k \in 1..Len(batch) : s.prompts[batch[k]].status = "failed"

\* CollectSave without the save_state calls of the wait loop.
CollectSave_Deferred(newState, oldDisk) == oldDisk

\* what the wait loop writes to the state file after one result
CollectSave(newState, oldDisk) == newState

\* PausedState that forgets the marker.
PausedState_Unset(s) == s

\* the except KeyboardInterrupt handler's state
PausedState(s) == [s EXCEPT !.paused_at = _now_iso]

NoHist == [failed |-> {}, done |-> {}, batched |-> [i \in Ids |-> 0]]

NoProc == [i \in Ids |-> "none"]

\* The process is gone: its locals are forgotten.
Forget ==
    /\ phase_index' = 0
    /\ runnable' = <<>>
    /\ bi' = 0
    /\ procs' = <<>>
    /\ wi' = 0
    /\ proc' = NoProc
    /\ hist' = NoHist

\* ------------------------------------------------------------ Init

\* _dispatch: plan creation. The dependency graph comes from the analysis or
\* the prompt texts, the phases from generate_execution_plan, the pointer is 1.
RunInit ==
    \E deps \in [1..InitItems -> SUBSET (1..InitItems)], mp \in 1..MaxParallel, auto \in BOOLEAN :
        LET phases == generate_execution_plan(1..InitItems, deps)
            st == [prompts |-> [i \in 1..InitItems |-> NewPrompt],
                   dependencies |-> deps,
                   phases |-> phases,
                   current_phase |-> 1,
                   total_phases |-> Len(phases),
                   paused_at |-> None,
                   options |-> [auto_execute |-> auto, max_parallel |-> mp]]
        IN /\ disk = st
           /\ mem = st
           /\ options = st.options
           /\ files = [i \in Ids |-> IF i <= InitItems THEN deps[i] ELSE {}]
           /\ pc = IF auto THEN "start" ELSE "idle"
    /\ phase_index = 0
    /\ runnable = <<>>
    /\ bi = 0
    /\ procs = <<>>
    /\ wi = 0
    /\ proc = NoProc
    /\ outcome = "none"
    /\ hist = NoHist

\* The levelling harness is not part of a run.
TopoParked ==
    /\ t_nodes = <<>>
    /\ t_deps = <<>>
    /\ t_out = <<"parked">>

\* The marker harness is not part of a run.
MarkParked ==
    /\ m_log = <<>>
    /\ m_out = <<"parked">>

\* The retry loop is not part of a sprint run.
LoopParked ==
    /\ l_file = <<>>
    /\ l_fs = <<>>
    /\ l_pc = "parked"
    /\ l_cont = "parked"
    /\ l_args = <<>>
    /\ l_state = <<>>
    /\ l_result = <<>>
    /\ l_obs = <<>>

\* The save/load processes of the harness are not part of a sprint run.
SaveParked ==
    /\ s_dir = <<>>
    /\ s_ino = <<>>
    /\ s_lock = 0
    /\ s_pc = <<>>
    /\ s_ver = <<>>
    /\ s_next = 0
    /\ s_rd = <<>>
    /\ s_installed = {}

\* No function call is being observed.
CallParked ==
    /\ h_in = <<>>
    /\ h_out = <<>>

Init == RunInit /\ TopoParked /\ MarkParked /\ LoopParked /\ SaveParked /\ CallParked

\* ------------------------------------------------------ auto_execute

\* Lines 1512-1524: the options are stored and saved, an empty plan is
\* replanned and reloaded, and the loop starts at max(current_phase, 1).
AEStart ==
    /\ pc = "start"
    /\ LET m1 == [mem EXCEPT !.options = [options EXCEPT !.auto_execute = TRUE]]
           m2 == IF m1.phases = <<>> THEN cmd_replan(m1, files) ELSE m1
       IN /\ mem' = m2
          /\ disk' = m2
          /\ phase_index' = Max(m2.current_phase, 1)
    /\ pc' = "loop"
    /\ runnable' = <<>>
    /\ bi' = 0
    /\ procs' = <<>>
    /\ wi' = 0
    /\ proc' = NoProc
    /\ hist' = NoHist
    /\ UNCHANGED <<outsideRun, files, options, outcome>>

\* A phase without pending prompts: the pointer is saved and the loop moves on.
PhaseSkip ==
    /\ pc = "loop"
    /\ phase_index <= Len(mem.phases)
    /\ LET m1 == [mem EXCEPT !.current_phase = phase_index]
       IN /\ Runnable(m1, m1.phases[phase_index]) = <<>>
          /\ mem' = m1
          /\ disk' = m1
    /\ runnable' = <<>>
    /\ phase_index' = phase_index + 1
    /\ UNCHANGED <<outsideRun, files, pc, options, bi, procs, wi, proc, outcome, hist>>

\* A phase with pending prompts: the pointer is saved and batching starts.
PhaseEnter ==
    /\ pc = "loop"
    /\ phase_index <= Len(mem.phases)
    /\ LET m1 == [mem EXCEPT !.current_phase = phase_index]
           run == Runnable(m1, m1.phases[phase_index])
       IN /\ run # <<>>
          /\ mem' = m1
          /\ disk' = m1
          /\ runnable' = run
    /\ bi' = 0
    /\ pc' = "batch"
    /\ hist' = [hist EXCEPT !.batched = [i \in Ids |-> 0]]
    /\ UNCHANGED <<outsideRun, files, options, phase_index, procs, wi, proc, outcome>>

\* Lines 1560-1591: the batch is marked in_progress, saved, and one worker
\* per prompt is started.
BatchStart ==
    /\ pc = "batch"
    /\ LET batch == Batch(runnable, bi, options.max_parallel)
           m1 == MarkAll(mem, batch, "in_progress")
       IN /\ mem' = m1
          /\ disk' = m1
          /\ procs' = batch
          /\ proc' = [i \in Ids |-> IF i \in Range(batch) THEN "running" ELSE proc[i]]
          /\ hist' = [hist EXCEPT !.batched =
                        [i \in Ids |-> IF i \in Range(batch) THEN @[i] + 1 ELSE @[i]]]
    /\ wi' = 0
    /\ pc' = "wait"
    /\ UNCHANGED <<outsideRun, files, options, phase_index, runnable, bi, outcome>>

\* A worker process exits; rc = 0 with a clean result ("ok") or not ("fail").
WorkerExit(i) ==
    /\ pc = "wait"
    /\ proc[i] = "running"
    /\ \E r \in {"ok", "fail"} : proc' = [proc EXCEPT ![i] = r]
    /\ UNCHANGED <<outsideRun, disk, files, pc, mem, options, phase_index, runnable, bi, procs,
                   wi, outcome, hist>>

\* Lines 1596-1615: communicate() on the next entry of procs returns, the
\* prompt is marked completed or failed and the state is saved.
Collect ==
    /\ pc = "wait"
    /\ wi < Len(procs)
    /\ LET pid == procs[wi + 1]
       IN /\ proc[pid] \in {"ok", "fail"}
          /\ LET m1 == update_prompt_status(mem, pid,
                          IF proc[pid] = "ok" THEN "completed" ELSE "failed")
             IN /\ mem' = m1
                /\ disk' = CollectSave(m1, disk)
          /\ hist' = IF proc[pid] = "ok"
                     THEN [hist EXCEPT !.done = @ \cup {pid}]
                     ELSE [hist EXCEPT !.failed = @ \cup {pid}]
    /\ wi' = wi + 1
    /\ UNCHANGED <<outsideRun, files, pc, options, phase_index, runnable, bi, procs, proc, outcome>>

\* Lines 1617-1620: a failed prompt in the batch ends the invocation.
BatchHalt ==
    /\ pc = "wait"
    /\ wi = Len(procs)
    /\ BatchFailed(mem, procs)
    /\ pc' = "idle"
    /\ outcome' = "failed"
    /\ UNCHANGED <<outsideRun, disk, files, mem, options, phase_index, runnable, bi, procs, wi,
                   proc, hist>>

\* The for loop takes the next batch of the phase.
BatchNext ==
    /\ pc = "wait"
    /\ wi = Len(procs)
    /\ ~BatchFailed(mem, procs)
    /\ bi + options.max_parallel < Len(runnable)
    /\ bi' = bi + options.max_parallel
    /\ pc' = "batch"
    /\ UNCHANGED <<outsideRun, disk, files, mem, options, phase_index, runnable, procs, wi, proc,
                   outcome, hist>>

\* Line 1622: all batches of the phase are through.
PhaseDone ==
    /\ pc = "wait"
    /\ wi = Len(procs)
    /\ ~BatchFailed(mem, procs)
    /\ bi + options.max_parallel >= Len(runnable)
    /\ phase_index' = phase_index + 1
    /\ pc' = "loop"
    /\ UNCHANGED <<outsideRun, disk, files, mem, options, runnable, bi, procs, wi, proc, outcome,
                   hist>>

\* Lines 1624-1627: the loop is over, the pointer is set past the last phase.
Complete ==
    /\ pc = "loop"
    /\ phase_index > Len(mem.phases)
    /\ LET m1 == [mem EXCEPT !.current_phase = Len(mem.phases) + 1]
       IN mem' = m1 /\ disk' = m1
    /\ pc' = "idle"
    /\ outcome' = "complete"
    /\ Forget
    /\ UNCHANGED <<outsideRun, files, options>>

\* Lines 1628-1632: KeyboardInterrupt inside the try block.
Interrupt ==
    /\ pc \in {"loop", "batch", "wait"}
    /\ LET m1 == PausedState(mem)
       IN mem' = m1 /\ disk' = m1
    /\ pc' = "idle"
    /\ outcome' = "interrupted"
    /\ Forget
    /\ UNCHANGED <<outsideRun, files, options>>

\* KeyboardInterrupt in lines 1512-1521, before the try block: nothing catches
\* it; the first save_state may or may not have run.
InterruptBeforeTry ==
    /\ pc = "start"
    /\ \E saved \in BOOLEAN :
          disk' = IF saved
                  THEN [mem EXCEPT !.options = [options EXCEPT !.auto_execute = TRUE]]
                  ELSE disk
    /\ mem' = disk'
    /\ pc' = "idle"
    /\ outcome' = "aborted"
    /\ Forget
    /\ UNCHANGED <<outsideRun, files, options>>

\* The coordinator dies inside the loop without running any handler (SIGKILL,
\* power loss, an exception that is not KeyboardInterrupt).
Crash ==
    /\ pc \in {"loop", "batch", "wait"}
    /\ pc' = "idle"
    /\ outcome' = "crashed"
    /\ mem' = disk
    /\ Forget
    /\ UNCHANGED <<outsideRun, disk, files, options>>

\* -------------------------------------------------------- subcommands

cmd_pause ==
    /\ disk' = [disk EXCEPT !.paused_at = _now_iso]
    /\ mem' = disk'
    /\ outcome' = "none"
    /\ Forget
    /\ UNCHANGED <<outsideRun, files, pc, options>>

\* cmd_resume is accepted only on a paused run.
ResumeAccepted(s) == s.paused_at # None

cmd_resume ==
    /\ ResumeAccepted(disk)
    /\ disk' = [disk EXCEPT !.paused_at = None]
    /\ mem' = disk'
    /\ options' = disk.options
    /\ pc' = IF disk.options.auto_execute THEN "start" ELSE "idle"
    /\ outcome' = "none"
    /\ Forget
    /\ UNCHANGED <<outsideRun, files>>

\* cmd_add: the next number, status pending, then cmd_replan. The new file's
\* text (the description) may name dependencies.
cmd_add(d) ==
    /\ Cardinality(DOMAIN disk.prompts) < MaxItems
    /\ LET new == Cardinality(DOMAIN disk.prompts) + 1
           f1 == [files EXCEPT ![new] = d]
           s1 == [disk EXCEPT !.prompts = [i \in DOMAIN @ \cup {new} |->
                                             IF i = new THEN NewPrompt ELSE @[i]]]
       IN /\ files' = f1
          /\ disk' = cmd_replan(s1, f1)
    /\ mem' = disk'
    /\ outcome' = "none"
    /\ Forget
    /\ UNCHANGED <<outsideRun, pc, options>>

\* cmd_remove: the prompt is marked skipped (kept in the list), then cmd_replan.
cmd_remove(pid) ==
    /\ pid \in DOMAIN disk.prompts
    /\ disk' = cmd_replan(update_prompt_status(disk, pid, "skipped"), files)
    /\ mem' = disk'
    /\ outcome' = "none"
    /\ Forget
    /\ UNCHANGED <<outsideRun, files, pc, options>>

\* Subcommands run from the shell while no coordinator is running.
CmdPause == pc = "idle" /\ cmd_pause

CmdResume == pc = "idle" /\ cmd_resume

\* The description may name any of the run's prompts as dependencies.
CmdAdd == pc = "idle" /\ \E d \in SUBSET (DOMAIN disk.prompts) : cmd_add(d)

CmdRemove == pc = "idle" /\ \E pid \in Ids : cmd_remove(pid)

CmdReplan ==
    /\ pc = "idle"
    /\ disk' = cmd_replan(disk, files)
    /\ mem' = disk'
    /\ outcome' = "none"
    /\ Forget
    /\ UNCHANGED <<outsideRun, files, pc, options>>

Next ==
    \/ AEStart
    \/ PhaseSkip
    \/ PhaseEnter
    \/ BatchStart
    \/ \E i \in Ids : WorkerExit(i)
    \/ Collect
    \/ BatchHalt
    \/ BatchNext
    \/ PhaseDone
    \/ Complete
    \/ Interrupt
    \/ InterruptBeforeTry
    \/ Crash
    \/ CmdPause
    \/ CmdResume
    \/ CmdAdd
    \/ CmdRemove
    \/ CmdReplan

Spec == Init /\ [][Next]_vars

\* ------------------------------------------ _topo_phases on drawn inputs

RunParked ==
    /\ disk = <<>>
    /\ files = <<>>
    /\ pc = "parked"
    /\ mem = <<>>
    /\ options = <<>>
    /\ phase_index = 0
    /\ runnable = <<>>
    /\ bi = 0
    /\ procs = <<>>
    /\ wi = 0
    /\ proc = <<>>
    /\ outcome = "none"
    /\ hist = <<>>

\* Every node list (sorted, as both callers pass it) over Ids and every
\* dependency map keyed by the nodes, with entries anywhere in Ids.
TopoInit ==
    /\ \E S \in SUBSET Ids :
          /\ t_nodes = sorted(S)
          /\ t_deps \in [S -> SUBSET Ids]
    /\ t_out = <<>>
    /\ RunParked
    /\ MarkParked
    /\ LoopParked
    /\ SaveParked
    /\ CallParked

TopoCall ==
    /\ t_out = <<>>
    /\ t_out' = _topo_phases(t_nodes, t_deps)
    /\ UNCHANGED <<t_nodes, t_deps, runVars, markVars, loopVars, saveVars, callVars>>

TopoNext == TopoCall

SpecTopo == TopoInit /\ [][TopoNext]_vars

\* ---- graph notions the levelling claims are stated with

RECURSIVE Closure(_, _)
Closure(S, deps) ==
    LET T == S \cup UNION {DepsGet(deps, x) : x \in S}
    IN IF T = S THEN S ELSE Closure(T, deps)

\* Everything n depends on, directly or through other entries.
Upstream(n, deps) == Closure(DepsGet(deps, n), deps)

OnCycle(n, deps) == n \in Upstream(n, deps)

\* The dependency map is a graph over the node set.
ClosedGraph(nodes, deps) == \A n \in nodes : DepsGet(deps, n) \subseteq nodes

HasCycle(nodes, deps) == \E n \in nodes : OnCycle(n, deps)

\* Each phase node's dependencies lie in strictly earlier phases, and no node
\* appears twice.
ValidLevelling(phases, deps) ==
    /\ \A k \in 1..Len(phases) : \A n \in Range(phases[k]) :
          \A d \in DepsGet(deps, n) :
             \E j \in 1..(k - 1) : d \in Range(phases[j])
    /\ \A k \in 1..Len(phases) :
          /\ \A a, b \in 1..Len(phases[k]) : a # b => phases[k][a] # phases[k][b]
          /\ \A j \in 1..Len(phases) :
                j # k => Range(phases[k]) \cap Range(phases[j]) = {}

PhaseNodes(phases) == UNION {Range(phases[k]) : k \in 1..Len(phases)}

TopoReturned == t_out # <<>> /\ t_out # <<"parked">>

\* C2: for an acyclic dependency graph over the node set, _topo_phases puts
\* every node in exactly one phase, puts nothing else in a phase, places every
\* node's dependencies in strictly earlier phases and returns no leftovers.
C2_AcyclicLevelling ==
    (TopoReturned /\ ClosedGraph(Range(t_nodes), t_deps)
                  /\ ~HasCycle(Range(t_nodes), t_deps))
    => /\ t_out[2] = <<>>
       /\ PhaseNodes(t_out[1]) = Range(t_nodes)
       /\ ValidLevelling(t_out[1], t_deps)

\* The chain of test_topo_phases_simple is levelled into [[001],[002],[003]].
C2_Witness ==
    /\ t_nodes = <<1, 2, 3>>
    /\ t_deps = (1 :> {} @@ 2 :> {1} @@ 3 :> {2})
    /\ t_out = << << <<1>>, <<2>>, <<3>> >>, <<>> >>

\* C3: for a graph over the node set that contains a cycle, the leftovers are
\* non-empty and are exactly the nodes on a cycle or depending (directly or
\* transitively) on a node of a cycle, in sorted order; the phases returned
\* are a valid levelling of the other nodes.
C3_CycleResidual ==
    (TopoReturned /\ ClosedGraph(Range(t_nodes), t_deps)
                  /\ HasCycle(Range(t_nodes), t_deps))
    => LET stuck == {n \in Range(t_nodes) :
                        \/ OnCycle(n, t_deps)
                        \/ \E c \in Upstream(n, t_deps) : OnCycle(c, t_deps)}
       IN /\ t_out[2] # <<>>
          /\ t_out[2] = sorted(stuck)
          /\ PhaseNodes(t_out[1]) = Range(t_nodes) \ stuck
          /\ ValidLevelling(t_out[1], t_deps)

\* A cycle 2 <-> 3 behind a free node 1: one phase is produced before the
\* cycle is met.
C3_Witness ==
    /\ t_nodes = <<1, 2, 3>>
    /\ t_deps = (1 :> {} @@ 2 :> {1, 3} @@ 3 :> {2})
    /\ t_out = << << <<1>> >>, <<2, 3>> >>

\* ------------------------------------------------- claims on the run

Running == {i \in Ids : proc[i] = "running"}

Unfinished(s, phase) ==
    {i \in Range(phase) : s.prompts[i].status \in {"pending", "in_progress"}}

\* C1: phases are strictly ordered: while auto_execute has the prompts of a
\* batch of phase k+1 marked in_progress, no prompt of phase k is pending or
\* in_progress.
C1_PhaseOrder ==
    (pc = "wait" /\ phase_index >= 2)
    => Unfinished(mem, mem.phases[phase_index - 1]) = {}

\* C4: once a prompt has failed in an invocation, that invocation starts no
\* further batch (the failure belongs to the batch still being waited for),
\* and after the halt the persisted pointer is the phase that failed, no
\* worker is left running and the prompts of that phase not yet launched are
\* still pending.
C4_FailureHalts ==
    /\ (pc # "idle" /\ hist.failed # {})
       => (pc = "wait" /\ hist.failed \subseteq Range(procs))
    /\ outcome = "failed"
       => /\ pc = "idle"
          /\ hist.failed # {}
          /\ disk.current_phase = phase_index
          /\ hist.failed \subseteq Range(disk.phases[phase_index])
          /\ Running = {}
          /\ \A k \in 1..Len(runnable) :
                k > bi + Len(procs) => disk.prompts[runnable[k]].status = "pending"

\* A halt on failure that leaves a prompt of the phase unlaunched.
C4_Witness ==
    /\ outcome = "failed"
    /\ Len(runnable) > bi + Len(procs)
    /\ disk.prompts[runnable[Len(runnable)]].status = "pending"

\* What a step of auto_execute does to the prompts completed before it.
CompletedKept ==
    pc \in {"start", "loop", "batch", "wait"}
    => \A i \in DOMAIN disk.prompts :
          disk.prompts[i].status = "completed"
          => /\ i \in DOMAIN disk'.prompts
             /\ disk'.prompts[i].status = "completed"
             /\ mem'.prompts[i].status = "completed"
             /\ (proc'[i] = "running" => proc[i] = "running")

\* C5: no step of auto_execute changes the status of a completed prompt or
\* starts a worker for one.
C5_CompletedUntouched == [][CompletedKept]_vars

\* A resumed invocation has a worker running in a phase that holds a prompt
\* completed by an earlier invocation, next to a failed one.
C5_Witness ==
    /\ pc = "wait"
    /\ Running # {}
    /\ \E i \in Range(mem.phases[phase_index]) :
          /\ disk.prompts[i].status = "completed"
          /\ i \notin hist.done
    /\ \E j \in DOMAIN disk.prompts : disk.prompts[j].status = "failed"

\* C6: when auto_execute reports the run complete, no prompt of any phase is
\* still pending.
C6_ResumeDispatchesAllPending ==
    outcome = "complete"
    => \A k \in 1..Len(disk.phases) : \A i \in Range(disk.phases[k]) :
          disk.prompts[i].status # "pending"

\* C7: after a halt on a failed batch, the resume subcommand is accepted on
\* the persisted state.
C7_ResumeAcceptedAfterFailure ==
    outcome = "failed" => ResumeAccepted(disk)

C9_BoundedParallelism ==
    pc \in {"loop", "batch", "wait"}
    => /\ Cardinality(Running) <= options.max_parallel
       /\ \A i \in Ids : hist.batched[i] <= 1
       /\ (pc = "batch" /\ bi = 0)
          => Range(runnable) =
                {i \in Range(mem.phases[phase_index]) :
                    mem.prompts[i].status = "pending"}
       /\ pc \in {"batch", "wait"}
          => \A k \in 1..Len(runnable) :
                hist.batched[runnable[k]] =
                    IF (pc = "wait" /\ k <= bi + Len(procs)) \/ k <= bi THEN 1 ELSE 0
       /\ (pc = "loop" /\ runnable # <<>>)
          => \A k \in 1..Len(runnable) : hist.batched[runnable[k]] = 1

\* A phase with more pending prompts than max_parallel, in its second batch.
C9_Witness ==
    /\ pc = "wait"
    /\ bi > 0
    /\ Len(runnable) > options.max_parallel
    /\ Cardinality(Running) = options.max_parallel

\* C10 as stated: whenever the coordinator is blocked on a running worker (a
\* crash may strike now), every prompt whose worker has exited successfully
\* is completed in the persisted state.
C10_FinishedWorkPersisted ==
    (pc = "wait" /\ wi < Len(procs) /\ proc[procs[wi + 1]] = "running")
    => \A i \in Ids : proc[i] = "ok" => disk.prompts[i].status = "completed"

\* C10 amended: every result the coordinator has collected is in the
\* persisted state before it waits for the next worker: the prompts of the
\* batch already waited for are completed or failed on disk as their workers
\* ended, and so is every prompt completed earlier in the invocation.
C10_CollectedResultsPersisted ==
    /\ pc = "wait"
       => \A k \in 1..wi :
             disk.prompts[procs[k]].status =
                 IF proc[procs[k]] = "ok" THEN "completed" ELSE "failed"
    /\ pc \in {"loop", "batch", "wait"}
       => \A i \in hist.done : disk.prompts[i].status = "completed"

\* Blocked in the middle of a batch with one result collected.
C10_Witness ==
    /\ pc = "wait"
    /\ wi >= 1
    /\ wi < Len(procs)
    /\ proc[procs[wi + 1]] = "running"
    /\ disk.prompts[procs[1]].status = "completed"

\* The residual nodes of the plan in s: what _topo_phases leaves over for the
\* prompts that are not skipped.
CycleFallback(s) ==
    Range(_topo_phases(sorted({i \in DOMAIN s.prompts : s.prompts[i].status # "skipped"}),
                       s.dependencies)[2])

\* C12: auto_execute never has the workers of two prompts of the
\* cycle-fallback phase (the residual nodes appended as the last phase)
\* running at the same time.
C12_CycleFallbackSequential ==
    pc = "wait" => Cardinality(Running \cap CycleFallback(mem)) <= 1

\* ------------------------------------------- check_completion_marker

\* A transcript is a sequence of tokens:
\*   SENT   the line DAPLUG_INSTRUCTIONS_END
\*   PEND   the text </verification_protocol>
\*   DONE   <verification>MARKER</verification> (the completion signal)
\*   RETRY  <verification>NEEDS_RETRY: reason</verification> (the retry signal)
\*   ROPEN  <verification>NEEDS_RETRY: reason   with no closing tag after it
\*   CLOSE  a stray </verification>
\*   BARE   the marker text outside verification tags
\*   TXT    any other text
INSTRUCTIONS_END_SENTINEL == "SENT"

Tokens == {"SENT", "PEND", "DONE", "RETRY", "ROPEN", "CLOSE", "BARE", "TXT"}

NoLog == <<"absent">>

RECURSIVE SeqsUpTo(_, _)
SeqsUpTo(S, n) ==
    IF n = 0 THEN {<<>>}
    ELSE LET shorter == SeqsUpTo(S, n - 1)
         IN shorter \cup {Append(q, x) : q \in {r \in shorter : Len(r) = n - 1}, x \in S}

\* str.find: the first index of the token, 0 when there is none.
Find(content, tok) ==
    IF \E k \in 1..Len(content) : content[k] = tok
    THEN CHOOSE k \in 1..Len(content) :
            content[k] = tok /\ \A j \in 1..(k - 1) : content[j] # tok
    ELSE 0

\* str.rfind: the last index of the token, 0 when there is none.
RFind(content, tok) ==
    IF \E k \in 1..Len(content) : content[k] = tok
    THEN CHOOSE k \in 1..Len(content) :
            content[k] = tok /\ \A j \in (k + 1)..Len(content) : content[j] # tok
    ELSE 0

\* SearchContent that searches the whole log.
SearchContent_Whole(content) == content

\* Lines 1020-1030: the part of the log that is searched.
SearchContent(content) ==
    LET sentinel_pos == Find(content, INSTRUCTIONS_END_SENTINEL)
        protocol_end == RFind(content, "PEND")
    IN IF sentinel_pos # 0 THEN SubSeq(content, sentinel_pos + 1, Len(content))
       ELSE IF protocol_end # 0 THEN SubSeq(content, protocol_end, Len(content))
       ELSE content

\* Tokens that hold the text </verification>.
ClosesTag(tok) == tok \in {"CLOSE", "DONE", "RETRY"}

\* Where retry_pattern can match from: a whole retry tag, or an unclosed one
\* followed anywhere later (re.DOTALL) by a closing tag.
RetryAt(search, k) ==
    \/ search[k] = "RETRY"
    \/ /\ search[k] = "ROPEN"
       /\ \E j \in (k + 1)..Len(search) : ClosesTag(search[j])

\* re.search(retry_pattern, ...): the leftmost match, 0 when there is none.
RetryMatch(search) ==
    IF \E k \in 1..Len(search) : RetryAt(search, k)
    THEN CHOOSE k \in 1..Len(search) :
            RetryAt(search, k) /\ \A j \in 1..(k - 1) : ~RetryAt(search, j)
    ELSE 0

\* retry_match.group(1).strip(): the reason of the tag, or the text running
\* from an unclosed tag into the next closing tag.
RetryReason(search, k) == IF search[k] = "RETRY" THEN "reason" ELSE "reason+"

\* re.search(completion_pattern, ...)
CompletionMatch(search) == \E k \in 1..Len(search) : search[k] = "DONE"

\* Classify that looks for the completion marker first.
Classify_CompletionFirst(search) ==
    IF CompletionMatch(search) THEN <<TRUE, None>>
    ELSE IF RetryMatch(search) # 0
         THEN <<FALSE, RetryReason(search, RetryMatch(search))>>
         ELSE <<FALSE, None>>

\* Lines 1032-1044: the retry pattern is tried first.
Classify(search) ==
    IF RetryMatch(search) # 0
    THEN <<FALSE, RetryReason(search, RetryMatch(search))>>
    ELSE IF CompletionMatch(search) THEN <<TRUE, None>>
         ELSE <<FALSE, None>>

check_completion_marker(log) ==
    IF log = NoLog THEN <<FALSE, None>>
    ELSE Classify(SearchContent(log))

\* ---- check_completion_marker on drawn transcripts

MarkInit ==
    /\ m_log \in SeqsUpTo(Tokens, MaxLog) \cup {NoLog}
    /\ m_out = <<>>
    /\ RunParked
    /\ TopoParked
    /\ LoopParked
    /\ SaveParked
    /\ CallParked

MarkCall ==
    /\ m_out = <<>>
    /\ m_out' = check_completion_marker(m_log)
    /\ UNCHANGED <<m_log, runVars, topoVars, loopVars, saveVars, callVars>>

MarkNext == MarkCall

SpecMarker == MarkInit /\ [][MarkNext]_vars

MarkReturned == m_out # <<>> /\ m_out # <<"parked">>

Has(s, tok) == \E k \in 1..Len(s) : s[k] = tok

\* The log up to (not including) the first sentinel, and after it.
BeforeSentinel(log) == SubSeq(log, 1, Find(log, "SENT") - 1)

AfterSentinel(log) == SubSeq(log, Find(log, "SENT") + 1, Len(log))

C19_RetryPrecedence ==
    (MarkReturned /\ m_log # NoLog)
    => LET search == SearchContent(m_log)
       IN (Has(search, "RETRY") /\ Has(search, "DONE"))
          => /\ m_out[1] = FALSE
             /\ m_out[2] # None

\* The completion signal comes first, the retry signal after it.
C19_Witness ==
    /\ m_log = <<"SENT", "DONE", "RETRY">>
    /\ m_out = <<FALSE, "reason">>

\* ------------------------------------------- run_verification_loop

\* Working-directory paths an invocation may be given.
Paths == {"a", "b"}

\* What a path may be in the runs explored: "a" is a directory that may be
\* removed, "b" a directory that may be replaced by a regular file.
FsKinds(p) == IF p = "a" THEN {"dir", "missing"} ELSE {"dir", "file"}

\* Execution timestamps an invocation may be given.
Stamps == {"t1", "t2"}

\* The state file does not exist.
NoState == [exists |-> FALSE]

\* The state file exists but does not hold a JSON document (a write that was
\* cut short after the truncation).
Torn == [exists |-> TRUE, valid_json |-> FALSE]

IsLoopState(f) == "status" \in DOMAIN f

\* What run_cli_foreground leaves behind: <<log content, exit_code>>. Every
\* log starts with the echoed instructions (both example signals, then the
\* sentinel); the worker's own output follows.
WorkerResults ==
    { <<(<<"DONE", "RETRY", "SENT", "TXT">>), 1>>,
      <<(<<"DONE", "RETRY", "SENT", "DONE">>), 0>>,
      <<(<<"DONE", "RETRY", "SENT", "RETRY">>), 0>>,
      <<(<<"DONE", "RETRY", "SENT", "DONE", "RETRY">>), 0>> }

create_loop_state(max_iterations, execution_timestamp, execution_cwd) ==
    [prompt_number |-> "001",
     execution_timestamp |-> execution_timestamp,
     execution_cwd |-> execution_cwd,
     iteration |-> 0,
     max_iterations |-> max_iterations,
     status |-> "pending",
     history |-> <<>>,
     failure_reason |-> None]

\* validate_execution_cwd: (ok, error)
validate_execution_cwd(execution_cwd, fs) ==
    IF fs[execution_cwd] = "missing"
    THEN <<FALSE, "execution_cwd does not exist">>
    ELSE IF fs[execution_cwd] # "dir"
         THEN <<FALSE, "execution_cwd is not a directory">>
         ELSE <<TRUE, None>>

\* update_loop_iteration that sets the status and records no history entry.
update_loop_iteration_NoEntry(state, exit_code, marker_found, log_file, retry_reason) ==
    [state EXCEPT !.status = IF marker_found THEN "completed"
                             ELSE IF state.iteration >= state.max_iterations
                                  THEN "max_iterations_reached"
                                  ELSE "running"]

\* Lines 975-999: the entry of the finished iteration and the status.
update_loop_iteration(state, exit_code, marker_found, log_file, retry_reason) ==
    LET entry == [iteration |-> state.iteration,
                  exit_code |-> exit_code,
                  marker_found |-> marker_found,
                  retry_reason |-> retry_reason,
                  log_file |-> log_file]
    IN [state EXCEPT !.history = Append(@, entry),
                     !.status = IF marker_found THEN "completed"
                                ELSE IF state.iteration >= state.max_iterations
                                     THEN "max_iterations_reached"
                                     ELSE "running"]

\* Lines 1432-1454: an existing pending/running state is resumed.
Resumable(f) == IsLoopState(f) /\ f.status \in {"pending", "running"}

\* StartState that always starts over.
StartState_Fresh(f, args) ==
    [create_loop_state(args.max_iterations, args.execution_timestamp, args.cwd)
        EXCEPT !.iteration = 1]

\* Lines 1432-1463: the state the invocation works on.
StartState(f, args) ==
    LET s0 == IF Resumable(f)
              THEN [f EXCEPT !.iteration = IF @ = 0 THEN 1 ELSE @]
              ELSE [create_loop_state(args.max_iterations, args.execution_timestamp,
                                      args.cwd)
                       EXCEPT !.iteration = 1]
        s1 == IF s0.execution_timestamp = None
              THEN [s0 EXCEPT !.execution_timestamp = args.execution_timestamp]
              ELSE s0
    IN [s1 EXCEPT !.execution_cwd = args.cwd]

\* AfterIteration that goes on after a completion signal.
AfterIteration_NoBreak(st, marker_found, max_iterations) ==
    IF st.iteration >= max_iterations
    THEN <<[st EXCEPT !.status = "max_iterations_reached"], "max_iterations_reached">>
    ELSE <<[st EXCEPT !.iteration = @ + 1], None>>

\* AfterIteration that runs one iteration too many.
AfterIteration_OneMore(st, marker_found, max_iterations) ==
    IF marker_found
    THEN <<[st EXCEPT !.status = "completed"], "completed">>
    ELSE IF st.iteration > max_iterations
         THEN <<[st EXCEPT !.status = "max_iterations_reached"], "max_iterations_reached">>
         ELSE <<[st EXCEPT !.iteration = @ + 1], None>>

\* Lines 1582-1608: what follows the history update: <<state, final_status>>,
\* final_status None when the loop goes on.
AfterIteration(st, marker_found, max_iterations) ==
    IF marker_found
    THEN <<[st EXCEPT !.status = "completed"], "completed">>
    ELSE IF st.iteration >= max_iterations
         THEN <<[st EXCEPT !.status = "max_iterations_reached"], "max_iterations_reached">>
         ELSE <<[st EXCEPT !.iteration = @ + 1], None>>

\* f"{model}-{prompt_number}-iter{iteration}-{effective_timestamp}.log"
IterLogName(iteration, stamp) == <<"iter", iteration, stamp>>

NoResult == [status |-> None, final_status |-> None, error |-> None, iterations |-> <<>>]

\* What the invocation found in the state file, as far as it resumes it.
StartObs(f) ==
    IF Resumable(f)
    THEN [resumed |-> TRUE, iteration |-> f.iteration,
          execution_timestamp |-> f.execution_timestamp,
          execution_cwd |-> f.execution_cwd, history |-> f.history]
    ELSE [resumed |-> FALSE]

\* The history the state file held when the command was given.
FoundObs(f) ==
    IF Resumable(f) THEN [resumed |-> TRUE, history |-> f.history]
    ELSE [resumed |-> FALSE]

\* calls: the workers started; start: what run_verification_loop loaded;
\* found: what the state file held when the command was given.
NoObs == [calls |-> <<>>, start |-> StartObs(NoState), found |-> FoundObs(NoState)]

\* No invocation is in progress.
NoArgs == [max_iterations |-> 1, execution_timestamp |-> "t1", cwd |-> "a"]

\* CwdOk that trusts the path.
CwdOk_Unchecked(execution_cwd, fs) == TRUE

CwdOk(execution_cwd, fs) == validate_execution_cwd(execution_cwd, fs)[1]

\* Lines 1431-1516: the call up to the first save.
run_verification_loop(args, found) ==
    LET st == StartState(l_file, args)
    IN /\ l_args' = args
       /\ l_obs' = [calls |-> <<>>, start |-> StartObs(l_file), found |-> found]
       /\ IF CwdOk(st.execution_cwd, l_fs)
          THEN /\ l_state' = [st EXCEPT !.status = "running"]
               /\ l_result' = [NoResult EXCEPT !.status = "running"]
               /\ l_cont' = "loop"
          ELSE /\ l_state' = [st EXCEPT !.status = "failed",
                                        !.failure_reason =
                                            validate_execution_cwd(st.execution_cwd, l_fs)[2]]
               /\ l_result' = [NoResult EXCEPT
                                  !.status = "error", !.final_status = "failed",
                                  !.error = validate_execution_cwd(st.execution_cwd, l_fs)[2]]
               /\ l_cont' = "returned"
       /\ l_pc' = "save"
       /\ UNCHANGED <<l_file, l_fs, runVars, topoVars, markVars, saveVars, callVars>>

LoopArgs == [max_iterations : 1..MaxIter, execution_timestamp : Stamps, cwd : Paths]

\* executor.py --run --loop --loop-foreground (as sprint.py runs it): the
\* loop runs in the invoked process.
ForegroundStart ==
    /\ l_pc \in {"idle", "returned", "crashed"}
    /\ \E args \in LoopArgs : run_verification_loop(args, FoundObs(l_file))

\* executor.py --run --loop: run_verification_loop_background validates the
\* working directory, writes a new LoopState and spawns the foreground loop
\* with the same parameters.
run_verification_loop_background ==
    /\ l_pc \in {"idle", "returned", "crashed"}
    /\ \E args \in LoopArgs :
          LET st == create_loop_state(args.max_iterations, args.execution_timestamp,
                                      args.cwd)
              err == validate_execution_cwd(args.cwd, l_fs)[2]
          IN /\ l_args' = args
             /\ l_obs' = [NoObs EXCEPT !.found = FoundObs(l_file)]
             /\ IF CwdOk(args.cwd, l_fs)
                THEN /\ l_file' = st
                     /\ l_result' = [NoResult EXCEPT !.status = "loop_running"]
                     /\ l_pc' = "spawned"
                ELSE /\ l_file' = [st EXCEPT !.status = "failed", !.failure_reason = err]
                     /\ l_result' = [NoResult EXCEPT !.status = "error", !.error = err]
                     /\ l_pc' = "returned"
    /\ l_state' = NoState
    /\ UNCHANGED <<l_fs, l_cont, runVars, topoVars, markVars, saveVars, callVars>>

\* The spawned process reaches run_verification_loop.
ChildStart ==
    /\ l_pc = "spawned"
    /\ run_verification_loop(l_args, l_obs.found)

\* save_loop_state: state_file.write_text(json.dumps(state)).
save_loop_state ==
    /\ l_pc = "save"
    /\ l_file' = l_state
    /\ l_pc' = l_cont
    /\ l_state' = IF l_cont = "returned" THEN NoState ELSE l_state
    /\ UNCHANGED <<l_fs, l_cont, l_args, l_result, l_obs, runVars, topoVars, markVars,
                   saveVars, callVars>>

\* Lines 1518-1553, the loop is entered: the working directory is validated
\* and the worker is started, or the loop fails.
IterStart ==
    /\ l_pc = "loop"
    /\ l_state.iteration <= l_args.max_iterations
    /\ IF CwdOk(l_state.execution_cwd, l_fs)
       THEN /\ l_pc' = "worker"
            /\ l_obs' = [l_obs EXCEPT !.calls =
                            Append(@, [iteration |-> l_state.iteration,
                                       cwd |-> l_state.execution_cwd,
                                       log_file |-> IterLogName(l_state.iteration,
                                                                l_state.execution_timestamp)])]
            /\ UNCHANGED <<l_state, l_result, l_cont>>
       ELSE /\ l_state' = [l_state EXCEPT
                              !.status = "failed",
                              !.failure_reason =
                                  validate_execution_cwd(l_state.execution_cwd, l_fs)[2]]
            /\ l_result' = [l_result EXCEPT
                               !.status = "error", !.final_status = "failed",
                               !.error = validate_execution_cwd(l_state.execution_cwd, l_fs)[2]]
            /\ l_pc' = "save"
            /\ l_cont' = "returned"
            /\ UNCHANGED l_obs
    /\ UNCHANGED <<l_file, l_fs, l_args, runVars, topoVars, markVars, saveVars, callVars>>

\* Line 1518, the while test fails: the function returns.
LoopExit ==
    /\ l_pc = "loop"
    /\ l_state.iteration > l_args.max_iterations
    /\ l_pc' = "returned"
    /\ l_state' = NoState
    /\ UNCHANGED <<l_file, l_fs, l_cont, l_args, l_result, l_obs, runVars, topoVars, markVars,
                   saveVars, callVars>>

\* Lines 1553-1611: the worker has exited; the log is classified, the history
\* entry appended and the state prepared for the save that follows.
IterEnd ==
    /\ l_pc = "worker"
    /\ \E w \in WorkerResults :
          LET found == check_completion_marker(w[1])
              marker_found == found[1]
              retry_reason == found[2]
              log_file == IterLogName(l_state.iteration, l_state.execution_timestamp)
              st == update_loop_iteration(l_state, w[2], marker_found, log_file, retry_reason)
              res == [l_result EXCEPT !.iterations =
                         Append(@, [iteration |-> l_state.iteration,
                                    marker_found |-> marker_found,
                                    retry_reason |-> retry_reason])]
              after == AfterIteration(st, marker_found, l_args.max_iterations)
          IN /\ l_state' = after[1]
             /\ l_result' = IF after[2] = None THEN res
                            ELSE [res EXCEPT !.status = after[2], !.final_status = after[2]]
             /\ l_cont' = IF after[2] = None THEN "loop" ELSE "returned"
    /\ l_pc' = "save"
    /\ UNCHANGED <<l_file, l_fs, l_args, l_obs, runVars, topoVars, markVars, saveVars, callVars>>

\* The loop process dies between two saves (SIGKILL, power loss, Ctrl+C: the
\* function has no handler).
LoopCrash ==
    /\ l_pc \in {"loop", "worker"}
    /\ l_pc' = "crashed"
    /\ l_state' = NoState
    /\ l_result' = NoResult
    /\ l_args' = NoArgs
    /\ UNCHANGED <<l_file, l_fs, l_cont, l_obs, runVars, topoVars, markVars, saveVars, callVars>>

\* The loop process dies inside save_loop_state: write_text has opened the
\* file for writing (which truncates it) and the document is not yet written.
CrashInSave ==
    /\ l_pc = "save"
    /\ l_file' = Torn
    /\ l_pc' = "crashed"
    /\ l_cont' = "loop"
    /\ l_state' = NoState
    /\ l_result' = NoResult
    /\ l_args' = NoArgs
    /\ UNCHANGED <<l_fs, l_obs, runVars, topoVars, markVars, saveVars, callVars>>

\* Somebody removes, creates or replaces a working directory.
FsChange ==
    /\ l_pc # "save"
    /\ \E p \in Paths : \E k \in FsKinds(p) :
          /\ l_fs[p] # k
          /\ l_fs' = [l_fs EXCEPT ![p] = k]
    /\ UNCHANGED <<l_file, l_pc, l_cont, l_args, l_state, l_result, l_obs, runVars, topoVars,
                   markVars, saveVars, callVars>>

LoopInit ==
    /\ l_file = NoState
    /\ l_fs \in {fs \in [Paths -> {"dir", "file", "missing"}] :
                    \A path \in Paths : fs[path] \in FsKinds(path)}
    /\ l_pc = "idle"
    /\ l_cont = "loop"
    /\ l_args = NoArgs
    /\ l_state = NoState
    /\ l_result = NoResult
    /\ l_obs = NoObs
    /\ RunParked
    /\ TopoParked
    /\ MarkParked
    /\ SaveParked
    /\ CallParked

LoopNext ==
    \/ ForegroundStart
    \/ run_verification_loop_background
    \/ ChildStart
    \/ save_loop_state
    \/ IterStart
    \/ LoopExit
    \/ IterEnd
    \/ LoopCrash
    \/ CrashInSave
    \/ FsChange

SpecLoop == LoopInit /\ [][LoopNext]_vars

\* ---- claims on the retry loop

\* The loop process is alive or has returned (its result dict is meaningful).
LoopLive == l_pc \in {"save", "loop", "worker", "returned"}

Last(q) == q[Len(q)]

\* C13: an iteration whose log is classified as completed is the last one of
\* the invocation: no worker is started after it, the state is marked
\* completed, and once the function has returned the persisted state is
\* completed with that iteration as its last history entry.
C13_StopsAtCompletion ==
    LoopLive
    => \A k \in 1..Len(l_result.iterations) :
          l_result.iterations[k].marker_found
          => /\ k = Len(l_result.iterations)
             /\ Len(l_obs.calls) = k
             /\ l_result.final_status = "completed"
             /\ \/ l_pc = "save" /\ l_cont = "returned" /\ l_state.status = "completed"
                \/ /\ l_pc = "returned"
                   /\ l_file.status = "completed"
                   /\ Last(l_file.history).marker_found
                   /\ Last(l_file.history).iteration = l_result.iterations[k].iteration

\* The loop returned completed at its second iteration with one more allowed.
C13_Witness ==
    /\ l_pc = "returned"
    /\ l_args.max_iterations = 3
    /\ l_result.final_status = "completed"
    /\ Len(l_result.iterations) = 2
    /\ l_file.status = "completed"
    /\ Len(l_file.history) = 2

\* C14: when the loop has returned without a completion signal and without a
\* working-directory failure, on a LoopState created with the configured
\* maximum, the status is max_iterations_reached, the history holds
\* max_iterations entries, one per iteration, and the worker was started once
\* for every iteration not already in the history the invocation loaded
\* (max_iterations times when it started from scratch).
C14_StopsAtMaxIterations ==
    (/\ l_pc = "returned"
     /\ l_result.status \notin {"error", "loop_running"}
     /\ l_result.final_status # "completed"
     /\ l_file.max_iterations = l_args.max_iterations)
    => LET done0 == IF l_obs.start.resumed THEN Len(l_obs.start.history) ELSE 0
       IN /\ l_file.status = "max_iterations_reached"
          /\ l_result.final_status = "max_iterations_reached"
          /\ Len(l_file.history) = l_args.max_iterations
          /\ \A k \in 1..Len(l_file.history) :
                l_file.history[k].iteration = k /\ ~l_file.history[k].marker_found
          /\ Len(l_obs.calls) = l_args.max_iterations - done0

\* Iteration 3 of max 3 without any signal, started from scratch.
C14_Witness ==
    /\ l_pc = "returned"
    /\ ~l_obs.start.resumed
    /\ l_args.max_iterations = 3
    /\ Len(l_obs.calls) = 3
    /\ l_file.status = "max_iterations_reached"
    /\ Len(l_file.history) = 3
    /\ \A k \in 1..3 : l_file.history[k].retry_reason = None

\* Iterations that have an entry in a history.
HistoryIterations(history) == {history[k].iteration : k \in 1..Len(history)}

\* C15: when the loop is invoked again on a persisted LoopState of resumable
\* status that records n finished iterations, the first worker it starts is
\* that of iteration n + 1 and no iteration already in the history is run
\* again.
C15_ResumeContinues ==
    (l_pc # "parked" /\ l_obs.found.resumed /\ Len(l_obs.calls) >= 1)
    => /\ l_obs.calls[1].iteration = Len(l_obs.found.history) + 1
       /\ \A k \in 1..Len(l_obs.calls) :
             l_obs.calls[k].iteration \notin HistoryIterations(l_obs.found.history)

IsPrefix(a, b) == Len(a) <= Len(b) /\ SubSeq(b, 1, Len(a)) = a

\* The state the invocation works on: in memory while it runs, on disk once
\* it has returned.
LoopStateNow == IF l_pc = "returned" THEN l_file ELSE l_state

CwdFailureRecorded ==
    /\ (l_pc = "save" /\ l_state.status = "failed")
       => /\ l_state.failure_reason \in {"execution_cwd does not exist",
                                         "execution_cwd is not a directory"}
          /\ l_cont = "returned"
          /\ l_result.status = "error"
          /\ l_result.error = l_state.failure_reason
    /\ (l_pc = "returned" /\ l_result.status = "error")
       => /\ l_file.status = "failed"
          /\ l_file.failure_reason # None
          /\ l_file.failure_reason = l_result.error

\* What a step of the loop does when it is about to start an iteration.
CwdCheckedBeforeWorker ==
    /\ (l_pc \in {"idle", "returned", "crashed", "spawned"} /\ l_pc' = "save"
        /\ l_fs[l_args'.cwd] # "dir")
       => /\ l_state'.status = "failed"
          /\ l_cont' = "returned"
          /\ l_obs'.calls = <<>>
    /\ (l_pc = "loop" /\ l_pc' \in {"worker", "save"}
        /\ l_fs[l_state.execution_cwd] # "dir")
       => /\ l_pc' = "save"
          /\ l_state'.status = "failed"
          /\ l_cont' = "returned"
          /\ l_obs'.calls = l_obs.calls
    /\ (l_pc # "worker" /\ l_pc' = "worker")
       => l_fs[Last(l_obs'.calls).cwd] = "dir"
    /\ (l_pc # "spawned" /\ l_pc' = "spawned")
       => l_fs[l_args'.cwd] = "dir"

\* C17: at the start of the call and at every iteration, a working directory
\* that is missing or is not a directory makes the loop fail without starting
\* the worker: the state is marked failed with the validation message as
\* failure_reason, persisted, and the call returns an error result.
C17_MissingCwdFails == [](CwdFailureRecorded) /\ [][CwdCheckedBeforeWorker]_vars

\* A resumed invocation ran a worker and then failed on the directory.
C17_Witness ==
    /\ l_pc = "returned"
    /\ l_obs.start.resumed
    /\ Len(l_obs.calls) >= 1
    /\ l_result.status = "error"
    /\ l_result.final_status = "failed"
    /\ l_file.status = "failed"
    /\ l_file.failure_reason = "execution_cwd does not exist"
    /\ Len(l_file.history) >= 2

\* The history a re-invocation can load from the state file.
PersistedHistory == IF IsLoopState(l_file) THEN l_file.history ELSE <<>>

\* C20: the history entry of an iteration is on disk before the next worker
\* is started; after a crash of the loop process the state file still holds
\* every iteration finished before the crash (all but possibly the one in
\* flight), and an invocation that follows starts from that history.
C20_CrashLosesAtMostOneIteration ==
    /\ l_pc = "worker"
       => \A k \in 1..(Len(l_obs.calls) - 1) :
             l_obs.calls[k].iteration \in HistoryIterations(PersistedHistory)
    /\ l_pc = "crashed"
       => /\ l_obs.start.resumed => IsPrefix(l_obs.start.history, PersistedHistory)
          /\ \A k \in 1..(Len(l_obs.calls) - 1) :
                l_obs.calls[k].iteration \in HistoryIterations(PersistedHistory)
    /\ (LoopLive /\ l_obs.found.resumed /\ l_result.status # "error")
       => IsPrefix(l_obs.found.history, LoopStateNow.history)

TerminalStatuses == {"completed", "max_iterations_reached", "failed"}

\* The transitions of the LoopState status (a status may also stay as it is).
StatusTransition(a, b) ==
    \/ a = b
    \/ a = "pending" /\ b = "running"
    \/ a = "running" /\ b \in TerminalStatuses

\* What a step of an invocation does to the status of its LoopState.
StatusStep ==
    (IsLoopState(l_state) /\ IsLoopState(l_state'))
    => /\ StatusTransition(l_state.status, l_state'.status)
       /\ l_state.status \in TerminalStatuses
          => /\ l_state'.status = l_state.status
             /\ ~(l_pc # "worker" /\ l_pc' = "worker")

\* C21: within an invocation the status of the LoopState only moves along
\* pending -> running -> {completed, max_iterations_reached, failed}; once it
\* is terminal the invocation neither changes it nor starts another worker.
C21_StatusStateMachine == [][StatusStep]_vars

\* ------------------------------------------- save_state / load_state

\* Processes that call save_state on the same state file.
Savers == {1, 2}

\* File names are records so that they compare with each other.
StatePath == [name |-> "state", pid |-> 0]

\* _atomic_write_json that writes the state file in place.
TmpName_InPlace(pid) == StatePath

\* tmp = path.with_name(path.name + f".tmp.{os.getpid()}")
TmpName(pid) == [name |-> "tmp", pid |-> pid]

FileNames == {StatePath} \cup {TmpName(p) : p \in Savers}

\* Inodes are numbered like the documents: 1 is the state file the run was
\* created with, each save allocates the next number.
Inodes == 1..(MaxSaves + 1)

\* json.dumps(data): the text of document v, as the chunks it is written in.
Document(v) == [k \in 1..DocChunks |-> v]

\* json.loads accepts the text: it is one whole document.
ValidJson(text) ==
    /\ Len(text) = DocChunks
    /\ \A k \in 1..Len(text) : text[k] = text[1]

\* _state_lock that never takes the lock.
LockFree_Always(holder, pid) == TRUE

\* fcntl.flock(f.fileno(), fcntl.LOCK_EX) returns once nobody else holds it.
LockFree(holder, pid) == holder = 0

\* save_state is entered: the lock file is opened.
SaveCall(p) ==
    /\ s_pc[p] = "idle"
    /\ s_next <= MaxSaves + 1
    /\ s_pc' = [s_pc EXCEPT ![p] = "lock"]
    /\ UNCHANGED <<s_dir, s_ino, s_lock, s_ver, s_next, s_rd, s_installed, runVars, topoVars,
                   markVars, loopVars, callVars>>

\* _state_lock: flock(LOCK_EX) is granted.
Acquire(p) ==
    /\ s_pc[p] = "lock"
    /\ LockFree(s_lock, p)
    /\ s_lock' = p
    /\ s_pc' = [s_pc EXCEPT ![p] = "open"]
    /\ UNCHANGED <<s_dir, s_ino, s_ver, s_next, s_rd, s_installed, runVars, topoVars, markVars,
                   loopVars, callVars>>

\* _write_text_file(tmp, ...): open(tmp, "w") creates the file or truncates it.
OpenTmp(p) ==
    /\ s_pc[p] = "open"
    /\ s_next <= MaxSaves + 1
    /\ LET tmp == TmpName(p)
           ino == IF s_dir[tmp] # 0 THEN s_dir[tmp] ELSE s_next
       IN /\ s_dir' = [s_dir EXCEPT ![tmp] = ino]
          /\ s_ino' = [s_ino EXCEPT ![ino] = <<>>]
    /\ s_ver' = [s_ver EXCEPT ![p] = s_next]
    /\ s_next' = s_next + 1
    /\ s_pc' = [s_pc EXCEPT ![p] = "write"]
    /\ UNCHANGED <<s_lock, s_rd, s_installed, runVars, topoVars, markVars, loopVars, callVars>>

\* One write(2) of the document's text.
WriteChunk(p) ==
    /\ s_pc[p] = "write"
    /\ LET ino == s_dir[TmpName(p)]
       IN /\ Len(s_ino[ino]) < DocChunks
          /\ s_ino' = [s_ino EXCEPT ![ino] = Append(@, Document(s_ver[p])[Len(@) + 1])]
    /\ UNCHANGED <<s_dir, s_lock, s_pc, s_ver, s_next, s_rd, s_installed, runVars, topoVars,
                   markVars, loopVars, callVars>>

\* os.replace(tmp, path): the state file's name now refers to the new inode.
Replace(p) ==
    /\ s_pc[p] = "write"
    /\ LET tmp == TmpName(p)
           ino == s_dir[tmp]
       IN /\ Len(s_ino[ino]) = DocChunks
          /\ s_dir' = IF tmp = StatePath THEN s_dir
                      ELSE [s_dir EXCEPT ![StatePath] = ino, ![tmp] = 0]
    /\ s_installed' = s_installed \cup {s_ver[p]}
    /\ s_pc' = [s_pc EXCEPT ![p] = "unlock"]
    /\ UNCHANGED <<s_ino, s_lock, s_ver, s_next, s_rd, runVars, topoVars, markVars, loopVars,
                   callVars>>

\* _state_lock: flock(LOCK_UN) and the lock file is closed.
Unlock(p) ==
    /\ s_pc[p] = "unlock"
    /\ s_lock' = IF s_lock = p THEN 0 ELSE s_lock
    /\ s_pc' = [s_pc EXCEPT ![p] = "idle"]
    /\ UNCHANGED <<s_dir, s_ino, s_ver, s_next, s_rd, s_installed, runVars, topoVars, markVars,
                   loopVars, callVars>>

\* A saving process is killed inside save_state: the kernel drops its lock,
\* its temporary file stays behind.
SaverKilled(p) ==
    /\ s_pc[p] \in {"lock", "open", "write", "unlock"}
    /\ s_lock' = IF s_lock = p THEN 0 ELSE s_lock
    /\ s_pc' = [s_pc EXCEPT ![p] = "idle"]
    /\ UNCHANGED <<s_dir, s_ino, s_ver, s_next, s_rd, s_installed, runVars, topoVars, markVars,
                   loopVars, callVars>>

\* load_state: path.read_text() opens the file the name refers to now.
LoadOpen ==
    /\ s_rd.pc = "idle"
    /\ s_dir[StatePath] # 0
    /\ s_rd' = [pc |-> "read", ino |-> s_dir[StatePath], text |-> <<>>]
    /\ UNCHANGED <<s_dir, s_ino, s_lock, s_pc, s_ver, s_next, s_installed, runVars, topoVars,
                   markVars, loopVars, callVars>>

\* One read(2): the next chunk of the open inode, or end of file.
LoadRead ==
    /\ s_rd.pc = "read"
    /\ LET have == Len(s_rd.text)
       IN IF have < Len(s_ino[s_rd.ino])
          THEN s_rd' = [s_rd EXCEPT !.text = Append(@, s_ino[s_rd.ino][have + 1])]
          ELSE s_rd' = [s_rd EXCEPT !.pc = "loaded"]
    /\ UNCHANGED <<s_dir, s_ino, s_lock, s_pc, s_ver, s_next, s_installed, runVars, topoVars,
                   markVars, loopVars, callVars>>

\* The caller of load_state is done with the result.
LoadReturn ==
    /\ s_rd.pc = "loaded"
    /\ s_rd' = [pc |-> "idle", ino |-> 0, text |-> <<>>]
    /\ UNCHANGED <<s_dir, s_ino, s_lock, s_pc, s_ver, s_next, s_installed, runVars, topoVars,
                   markVars, loopVars, callVars>>

SaveInit ==
    /\ s_dir = [n \in FileNames |-> IF n = StatePath THEN 1 ELSE 0]
    /\ s_ino = [i \in Inodes |-> IF i = 1 THEN Document(1) ELSE <<>>]
    /\ s_lock = 0
    /\ s_pc = [p \in Savers |-> "idle"]
    /\ s_ver = [p \in Savers |-> 0]
    /\ s_next = 2
    /\ s_rd = [pc |-> "idle", ino |-> 0, text |-> <<>>]
    /\ s_installed = {1}
    /\ RunParked
    /\ TopoParked
    /\ MarkParked
    /\ LoopParked
    /\ CallParked

SaveNext ==
    \/ \E p \in Savers : SaveCall(p)
    \/ \E p \in Savers : Acquire(p)
    \/ \E p \in Savers : OpenTmp(p)
    \/ \E p \in Savers : WriteChunk(p)
    \/ \E p \in Savers : Replace(p)
    \/ \E p \in Savers : Unlock(p)
    \/ \E p \in Savers : SaverKilled(p)
    \/ LoadOpen
    \/ LoadRead
    \/ LoadReturn

SpecSave == SaveInit /\ [][SaveNext]_vars

\* Processes between the granted flock and its release.
Holding == {p \in Savers : s_pc[p] \in {"open", "write", "unlock"}}

Falsy(v) == v \in {"absent", "null", ""}

StatusWords == {"completed", "Completed", "failed", "max_iterations_reached", "running"}

FieldVals == {"absent", "null", ""} \cup StatusWords

\* str(final_status).lower()
Lower(w) == IF w = "Completed" THEN "completed" ELSE w

\* prompts[0]["execution"] as far as the dispatcher reads it
ExecInfos == [final_status : FieldVals, status : FieldVals]

\* A second entry of "prompts", which the dispatcher does not read.
OtherExecInfos == {e \in ExecInfos : e.final_status \in {"completed", "failed"}
                                     /\ e.status = "absent"}

ErrorVals == {"absent", "null", "", "msg"}

\* What the worker wrote to stdout, by what json.loads makes of it: no JSON
\* at all, a JSON value that is not an object, or an object with its "error"
\* and "prompts" members ("other": the member is not a list). The members of
\* what is not an object are never read.
Stdouts ==
    [parse : {"error", "value"}, is_dict : {FALSE}, error : {"absent"},
     prompts_kind : {"absent"}, prompts : {<<>>}]
    \cup [parse : {"value"}, is_dict : {TRUE}, error : ErrorVals,
          prompts_kind : {"absent", "other"}, prompts : {<<>>}]
    \cup [parse : {"value"}, is_dict : {TRUE}, error : ErrorVals,
          prompts_kind : {"list"},
          prompts : {<<>>} \cup {<<e>> : e \in ExecInfos}
                    \cup {<<e, o>> : e \in ExecInfos, o \in OtherExecInfos}]

\* proc.returncode or 0: a clean exit, an error exit, death by a signal.
ReturnCodes == {0, 1, -9}

\* _interpret_executor_result that trusts the exit code alone.
_interpret_executor_result_ExitCodeOnly(stdout, returncode) == returncode

\* _interpret_executor_result that does not look at the final status.
_interpret_executor_result_NoStatus(stdout, returncode) ==
    IF returncode # 0 THEN returncode
    ELSE IF stdout.parse = "error" THEN 2
    ELSE IF ~stdout.is_dict THEN 2
    ELSE IF ~Falsy(stdout.error) THEN 2
    ELSE 0

\* 0 for success, non-zero for failure.
_interpret_executor_result(stdout, returncode) ==
    IF returncode # 0 THEN returncode
    ELSE IF stdout.parse = "error" THEN 2
    ELSE IF ~stdout.is_dict THEN 2
    ELSE IF ~Falsy(stdout.error) THEN 2
    ELSE IF stdout.prompts_kind = "list" /\ stdout.prompts # <<>>
         THEN LET exec_info == stdout.prompts[1]
                  final_status == IF ~Falsy(exec_info.final_status)
                                  THEN exec_info.final_status
                                  ELSE exec_info.status
              IN IF ~Falsy(final_status) /\ Lower(final_status) # "completed"
                 THEN 2
                 ELSE 0
         ELSE 0

\* auto_execute, lines 1606-1610: the status the prompt is given.
DispatcherStatus(stdout, returncode) ==
    IF _interpret_executor_result(stdout, returncode) = 0 THEN "completed" ELSE "failed"

\* json.dumps of a value of the loop result: None is written as null.
JsonField(v) == IF v = None THEN "null" ELSE v

\* executor.py main, --loop-foreground: the loop result is printed as the
\* "execution" member of the only entry of "prompts"; the exit code is 0.
ExecutorStdout(loop_result) ==
    [parse |-> "value", is_dict |-> TRUE, error |-> "absent", prompts_kind |-> "list",
     prompts |-> <<[final_status |-> JsonField(loop_result.final_status),
                    status |-> JsonField(loop_result.status)]>>]

\* ---- _interpret_executor_result on drawn outputs

ResultInit ==
    /\ h_in \in [stdout : Stdouts, returncode : ReturnCodes]
    /\ h_out = <<>>
    /\ RunParked
    /\ TopoParked
    /\ MarkParked
    /\ LoopParked
    /\ SaveParked

InterpretCall ==
    /\ h_out = <<>>
    /\ h_out' = <<_interpret_executor_result(h_in.stdout, h_in.returncode)>>
    /\ UNCHANGED <<h_in, runVars, topoVars, markVars, loopVars, saveVars>>

ResultNext == InterpretCall

SpecResult == ResultInit /\ [][ResultNext]_vars

\* ---- claims on the classification of worker results

\* C22: a retry loop that returned without a completion signal (its budget
\* used up, no signal of either kind needed) is recorded by the dispatcher as
\* failed: the prompt is marked completed only when the loop's final status
\* is completed.
C22_AmbiguityIsFailure ==
    (l_pc = "returned" /\ l_result.status # "loop_running")
    => /\ l_result.final_status = "max_iterations_reached"
          => DispatcherStatus(ExecutorStdout(l_result), 0) = "failed"
       /\ DispatcherStatus(ExecutorStdout(l_result), 0) = "completed"
          => l_result.final_status = "completed"

\* Two iterations of two went by with neither signal in the log.
C22_Witness ==
    /\ l_pc = "returned"
    /\ l_result.final_status = "max_iterations_reached"
    /\ Len(l_result.iterations) = 2
    /\ \A k \in 1..2 : /\ ~l_result.iterations[k].marker_found
                       /\ l_result.iterations[k].retry_reason = None
    /\ DispatcherStatus(ExecutorStdout(l_result), 0) = "failed"

ResultReturned == h_out # <<>>

\* The output is a JSON object.
ParsedObject(stdout) == stdout.parse = "value" /\ stdout.is_dict

\* C23: a result is classified as success (0) only if the exit code is 0, the
\* output is a JSON object without an error reported in it and, when the first
\* prompt's execution carries a final status, that status reads completed;
\* a non-zero exit code, output that is not a JSON object, or an error
\* reported in the output is always classified as failure.
C23_SuccessClassification ==
    ResultReturned
    => LET stdout == h_in.stdout
           rc == h_in.returncode
       IN /\ h_out[1] = 0
             => /\ rc = 0
                /\ ParsedObject(stdout)
                /\ Falsy(stdout.error)
                /\ (stdout.prompts_kind = "list" /\ stdout.prompts # <<>>
                    /\ ~Falsy(stdout.prompts[1].final_status))
                   => Lower(stdout.prompts[1].final_status) = "completed"
          /\ rc # 0 => h_out[1] # 0
          /\ ~ParsedObject(stdout) => h_out[1] # 0
          /\ (ParsedObject(stdout) /\ ~Falsy(stdout.error)) => h_out[1] # 0

\* Exit code 0 and no error member, but the final status is not completed:
\* failure.
C23_Witness ==
    /\ ResultReturned
    /\ h_in.returncode = 0
    /\ ParsedObject(h_in.stdout)
    /\ h_in.stdout.error = "absent"
    /\ h_in.stdout.prompts_kind = "list"
    /\ Len(h_in.stdout.prompts) = 1
    /\ h_in.stdout.prompts[1].final_status = "max_iterations_reached"
    /\ h_out = <<2>>

\* ------------------------------------------- update_prompt_status on drawn states

\* A timestamp written by an earlier call.
PastStamp == "t0"

\* The prompt entries a state may hold.
PromptRecs == [status : PROMPT_STATUSES, started_at : {None, PastStamp},
               finished_at : {None, PastStamp}]

\* The status argument: the five statuses and one that is none of them.
StatusArgs == PROMPT_STATUSES \cup {"done"}

\* States of up to two prompts, any identifier, any status word.
StatusInit ==
    /\ \E S \in {T \in SUBSET Ids : Cardinality(T) <= 2} :
          h_in \in [state : [prompts : [S -> PromptRecs]], prompt_id : Ids,
                    status : StatusArgs]
    /\ h_out = <<>>
    /\ RunParked
    /\ TopoParked
    /\ MarkParked
    /\ LoopParked
    /\ SaveParked

StatusCall ==
    /\ h_out = <<>>
    /\ h_out' = <<[state |-> update_prompt_status(h_in.state, h_in.prompt_id, h_in.status),
                   raised |-> update_prompt_status_raises(h_in.state, h_in.prompt_id,
                                                          h_in.status)]>>
    /\ UNCHANGED <<h_in, runVars, topoVars, markVars, loopVars, saveVars>>

StatusNext == StatusCall

SpecStatus == StatusInit /\ [][StatusNext]_vars

\* C24: update_prompt_status raises for a status that is not one of the five
\* (ValueError) and for an identifier that is not in the state (KeyError) and
\* then leaves the state as it was; otherwise it sets the status of that
\* prompt, stamps started_at when the status is in_progress and no start time
\* is set, stamps finished_at when the status is completed, failed or
\* skipped, and changes nothing else.
C24_UpdatePromptStatus ==
    h_out # <<>>
    => LET old == h_in.state.prompts
           new == h_out[1].state.prompts
           pid == h_in.prompt_id
           status == h_in.status
       IN IF status \notin PROMPT_STATUSES \/ pid \notin DOMAIN old
          THEN /\ h_out[1].raised = IF status \notin PROMPT_STATUSES
                                    THEN "ValueError" ELSE "KeyError"
               /\ h_out[1].state = h_in.state
          ELSE /\ h_out[1].raised = None
               /\ DOMAIN new = DOMAIN old
               /\ \A i \in DOMAIN old : i # pid => new[i] = old[i]
               /\ new[pid].status = status
               /\ new[pid].started_at =
                     IF status = "in_progress" /\ old[pid].started_at = None
                     THEN _now_iso ELSE old[pid].started_at
               /\ new[pid].finished_at =
                     IF status \in {"completed", "failed", "skipped"}
                     THEN _now_iso ELSE old[pid].finished_at

\* A failed prompt with both times set is put in progress again: the start
\* time and the finish time stay.
C24_Witness ==
    /\ h_out # <<>>
    /\ h_in.prompt_id = 2
    /\ h_in.status = "in_progress"
    /\ h_in.state.prompts = (1 :> NewPrompt
                             @@ 2 :> [status |-> "failed", started_at |-> PastStamp,
                                      finished_at |-> PastStamp])
    /\ h_out[1].raised = None
    /\ h_out[1].state.prompts[2] = [status |-> "in_progress", started_at |-> PastStamp,
                                    finished_at |-> PastStamp]

\* ------------------------------------------- SprintState on disk

\* JSON values, tagged by their kind.
JNull == <<"null">>

JStr(v) == <<"str", v>>

JInt(v) == <<"int", v>>

JBool(v) == <<"bool", v>>

\* str | None
JOptStr(v) == IF v = None THEN JNull ELSE JStr(v)

\* A list, given the encoding of its elements.
JList(elems) == <<"list", elems>>

\* A dict, given the encoding of its values; the keys are strings.
JDict(members) == <<"dict", members>>

\* One entry of state.prompts.
JPrompt(p) ==
    JDict([id |-> JStr(p.id), status |-> JStr(p.status), model |-> JOptStr(p.model),
           started_at |-> JOptStr(p.started_at), finished_at |-> JOptStr(p.finished_at)])

JIdList(l) == JList([k \in 1..Len(l) |-> JStr(l[k])])

\* SprintState.to_dict: dataclasses.asdict gives every field under its name.
to_dict(state) ==
    [sprint_id |-> state.sprint_id,
     created_at |-> state.created_at,
     spec_hash |-> state.spec_hash,
     spec_path |-> state.spec_path,
     prompts |-> state.prompts,
     current_phase |-> state.current_phase,
     total_phases |-> state.total_phases,
     model_usage |-> state.model_usage,
     paused_at |-> state.paused_at,
     schema_version |-> state.schema_version,
     output_dir |-> state.output_dir,
     plan_file |-> state.plan_file,
     phases |-> state.phases,
     dependencies |-> state.dependencies,
     options |-> state.options]

\* json.dumps(data, indent=2, sort_keys=True): the document written.
json_dumps(data) ==
    JDict([sprint_id |-> JStr(data.sprint_id),
           created_at |-> JStr(data.created_at),
           spec_hash |-> JStr(data.spec_hash),
           spec_path |-> JStr(data.spec_path),
           prompts |-> JList([k \in 1..Len(data.prompts) |-> JPrompt(data.prompts[k])]),
           current_phase |-> JInt(data.current_phase),
           total_phases |-> JInt(data.total_phases),
           model_usage |-> JDict([m \in DOMAIN data.model_usage |->
                                     JInt(data.model_usage[m])]),
           paused_at |-> JOptStr(data.paused_at),
           schema_version |-> JInt(data.schema_version),
           output_dir |-> JStr(data.output_dir),
           plan_file |-> JStr(data.plan_file),
           phases |-> JList([k \in 1..Len(data.phases) |-> JIdList(data.phases[k])]),
           dependencies |-> JDict([i \in DOMAIN data.dependencies |->
                                      JIdList(data.dependencies[i])]),
           options |-> JDict([auto_execute |-> JBool(data.options.auto_execute),
                              max_parallel |-> JInt(data.options.max_parallel)])])

\* json.loads: null is None, arrays are lists, objects are dicts.
RECURSIVE json_loads(_)
json_loads(j) ==
    IF j[1] = "null" THEN None
    ELSE IF j[1] \in {"str", "int", "bool"} THEN j[2]
    ELSE IF j[1] = "list" THEN [k \in 1..Len(j[2]) |-> json_loads(j[2][k])]
    ELSE [k \in DOMAIN j[2] |-> json_loads(j[2][k])]

\* raw.get(key, default)
RawGet(raw, key, default) == IF key \in DOMAIN raw THEN raw[key] ELSE default

STATE_SCHEMA_VERSION == 1

\* from_dict that does not read the pause marker.
from_dict_DropPause(raw) ==
    [sprint_id |-> raw.sprint_id,
     created_at |-> raw.created_at,
     spec_hash |-> RawGet(raw, "spec_hash", ""),
     spec_path |-> RawGet(raw, "spec_path", "inline"),
     prompts |-> RawGet(raw, "prompts", <<>>),
     current_phase |-> RawGet(raw, "current_phase", 1),
     total_phases |-> RawGet(raw, "total_phases", 0),
     model_usage |-> RawGet(raw, "model_usage", <<>>),
     paused_at |-> None,
     schema_version |-> RawGet(raw, "schema_version", STATE_SCHEMA_VERSION),
     output_dir |-> RawGet(raw, "output_dir", "./prompts/"),
     plan_file |-> RawGet(raw, "plan_file", "./sprint-plan.md"),
     phases |-> RawGet(raw, "phases", <<>>),
     dependencies |-> RawGet(raw, "dependencies", <<>>),
     options |-> RawGet(raw, "options", <<>>)]

\* SprintState.from_dict; int(), list() and dict() leave what json.loads
\* gives for these fields as it is.
from_dict(raw) ==
    [sprint_id |-> raw.sprint_id,
     created_at |-> raw.created_at,
     spec_hash |-> RawGet(raw, "spec_hash", ""),
     spec_path |-> RawGet(raw, "spec_path", "inline"),
     prompts |-> RawGet(raw, "prompts", <<>>),
     current_phase |-> RawGet(raw, "current_phase", 1),
     total_phases |-> RawGet(raw, "total_phases", 0),
     model_usage |-> RawGet(raw, "model_usage", <<>>),
     paused_at |-> RawGet(raw, "paused_at", None),
     schema_version |-> RawGet(raw, "schema_version", STATE_SCHEMA_VERSION),
     output_dir |-> RawGet(raw, "output_dir", "./prompts/"),
     plan_file |-> RawGet(raw, "plan_file", "./sprint-plan.md"),
     phases |-> RawGet(raw, "phases", <<>>),
     dependencies |-> RawGet(raw, "dependencies", <<>>),
     options |-> RawGet(raw, "options", <<>>)]

\* No file at the state file's path.
NoFile == [kind |-> "absent"]

\* A file whose text is not JSON.
GarbageFile == [kind |-> "garbage"]

\* A file whose text is JSON but not an object.
ArrayFile == [kind |-> "array"]

\* A file that holds a JSON object.
DocumentFile(text) == [kind |-> "document", text |-> text]

\* save_state: what _atomic_write_json leaves at the state file's path.
save_state(state) == DocumentFile(json_dumps(to_dict(state)))

\* load_state that takes a file it cannot read as no file.
load_state_Lenient(file) ==
    IF file.kind # "document" THEN [raised |-> None, found |-> FALSE, state |-> None]
    ELSE IF {"sprint_id", "created_at"} \subseteq DOMAIN file.text[2]
         THEN [raised |-> None, found |-> TRUE, state |-> from_dict(json_loads(file.text))]
         ELSE [raised |-> None, found |-> FALSE, state |-> None]

\* load_state: the exception raised (None when it returns), whether a state
\* is returned (found; None is returned when there is no file) and the state.
load_state(file) ==
    IF file.kind = "absent" THEN [raised |-> None, found |-> FALSE, state |-> None]
    ELSE IF file.kind = "garbage"
         THEN [raised |-> "RuntimeError", found |-> FALSE, state |-> None]
    ELSE IF file.kind = "array"
         THEN [raised |-> "TypeError", found |-> FALSE, state |-> None]
    ELSE IF {"sprint_id", "created_at"} \subseteq DOMAIN file.text[2]
         THEN [raised |-> None, found |-> TRUE, state |-> from_dict(json_loads(file.text))]
         ELSE [raised |-> "RuntimeError", found |-> FALSE, state |-> None]

\* ---- save_state and load_state on drawn states

\* Entries of state.prompts as the harness draws them: every status with the
\* times it can carry, with and without a model.
StoredPrompts(i) ==
    {[id |-> i, status |-> r.status, model |-> m, started_at |-> r.started_at,
      finished_at |-> r.finished_at] : r \in PromptRecs, m \in {None, "codex"}}

\* Lists of up to two prompts.
StoredPromptLists ==
    {<<>>} \cup {<<p>> : p \in StoredPrompts(1)}
    \cup {<<p, q>> : p \in {x \in StoredPrompts(1) : x.status = "completed"
                                                       /\ x.model = "codex"
                                                       /\ x.started_at = PastStamp
                                                       /\ x.finished_at = PastStamp},
                     q \in {x \in StoredPrompts(2) : x.started_at = x.finished_at}}

\* Dependency lists and phase lists over the identifiers 1 and 2.
StoredDeps == {<<>>, (1 :> <<>> @@ 2 :> <<1>>), (1 :> <<2>> @@ 2 :> <<1>>)}

StoredPhases == {<<>>, << <<1>> >>, << <<1, 2>> >>, << <<1>>, <<2>> >>, << <<2>>, <<1>> >>}

\* The states the harness saves and loads.
StoredStates ==
    [sprint_id : {"sprint-1"}, created_at : {PastStamp}, spec_hash : {"", "abc"},
     spec_path : {"inline"}, prompts : StoredPromptLists,
     current_phase : 1..3, total_phases : {2},
     model_usage : {<<>>, [m \in {"codex"} |-> 1]},
     paused_at : {None, _now_iso}, schema_version : {STATE_SCHEMA_VERSION},
     output_dir : {"./prompts/"}, plan_file : {"./sprint-plan.md"},
     phases : StoredPhases, dependencies : StoredDeps,
     options : [auto_execute : BOOLEAN, max_parallel : {MaxParallel}]]

RoundTripInit ==
    /\ h_in \in StoredStates
    /\ h_out = <<>>
    /\ RunParked
    /\ TopoParked
    /\ MarkParked
    /\ LoopParked
    /\ SaveParked

RoundTripSave ==
    /\ h_out = <<>>
    /\ h_out' = <<"saved", save_state(h_in)>>
    /\ UNCHANGED <<h_in, runVars, topoVars, markVars, loopVars, saveVars>>

RoundTripLoad ==
    /\ h_out # <<>>
    /\ h_out[1] = "saved"
    /\ h_out' = <<"loaded", load_state(h_out[2]).state>>
    /\ UNCHANGED <<h_in, runVars, topoVars, markVars, loopVars, saveVars>>

RoundTripNext == RoundTripSave \/ RoundTripLoad

SpecRoundTrip == RoundTripInit /\ [][RoundTripNext]_vars

RoundTripLoaded == h_out # <<>> /\ h_out[1] = "loaded"

\* C25: the state load_state builds from the file save_state wrote equals the
\* saved state field for field: the prompts with their statuses, the
\* dependency map, the phases, the phase pointer, the pause marker and every
\* other field.
C25_StateRoundTrip ==
    RoundTripLoaded
    => /\ DOMAIN h_out[2] = DOMAIN h_in
       /\ \A f \in DOMAIN h_in : h_out[2][f] = h_in[f]

\* A paused state with two prompts, two phases and a dependency came back.
C25_Witness ==
    /\ RoundTripLoaded
    /\ h_in.paused_at = _now_iso
    /\ Len(h_in.prompts) = 2
    /\ h_in.phases = << <<1>>, <<2>> >>
    /\ h_in.dependencies = (1 :> <<>> @@ 2 :> <<1>>)
    /\ h_in.current_phase = 2
    /\ h_out[2].paused_at = _now_iso
    /\ h_out[2].phases = << <<1>>, <<2>> >>
    /\ h_out[2].prompts[2].status = h_in.prompts[2].status

\* ------------------------------------------- subcommands on drawn state files

SUBCOMMANDS == {"status", "add", "remove", "replan", "pause", "resume", "cancel", "history"}

\* The subcommands that work on the state file.
StateSubcommands == SUBCOMMANDS \ {"history"}

\* The document without one of its members.
DropMember(file, key) ==
    DocumentFile(JDict([k \in (DOMAIN file.text[2]) \ {key} |-> file.text[2][k]]))

\* _ensure_active_state: the exception raised for what load_state returned.
_ensure_active_state(loaded) == IF loaded.found THEN None ELSE "RuntimeError"

\* _dispatch and the beginning every cmd_* function shares: the usage check
\* of add and remove, load_state, _ensure_active_state. entered: the body of
\* the command is reached, with the state loaded; file: the state file when
\* the command has raised or is about to enter its body.
Subcommand(cmd, has_args, file) ==
    LET loaded == load_state(file)
        failed(exc) == [raised |-> exc, entered |-> FALSE, file |-> file, state |-> None]
    IN IF cmd \in {"add", "remove"} /\ ~has_args THEN failed("RuntimeError")
       ELSE IF loaded.raised # None THEN failed(loaded.raised)
       ELSE IF _ensure_active_state(loaded) # None THEN failed(_ensure_active_state(loaded))
       ELSE [raised |-> None, entered |-> TRUE, file |-> file, state |-> loaded.state]

\* The states whose files the subcommands are tried on.
SampleStates ==
    {s \in StoredStates : /\ Len(s.prompts) <= 1
                          /\ \A k \in 1..Len(s.prompts) :
                                s.prompts[k].started_at = s.prompts[k].finished_at
                          /\ s.spec_hash = "abc"
                          /\ s.model_usage = <<>>
                          /\ s.dependencies = <<>>
                          /\ s.phases \in {<<>>, << <<1>> >>}
                          /\ s.current_phase = 1}

\* No file, files that are not a JSON object, whole documents, and documents
\* that lack a required member (sprint_id, created_at) or an optional one.
StateFiles ==
    {NoFile, GarbageFile, ArrayFile}
    \cup {save_state(s) : s \in SampleStates}
    \cup {DropMember(save_state(s), k) :
             s \in SampleStates, k \in {"sprint_id", "created_at", "phases"}}

SubcommandInit ==
    /\ h_in \in [cmd : StateSubcommands, has_args : BOOLEAN, file : StateFiles]
    /\ h_out = <<>>
    /\ RunParked
    /\ TopoParked
    /\ MarkParked
    /\ LoopParked
    /\ SaveParked

SubcommandCall ==
    /\ h_out = <<>>
    /\ h_out' = <<Subcommand(h_in.cmd, h_in.has_args, h_in.file)>>
    /\ UNCHANGED <<h_in, runVars, topoVars, markVars, loopVars, saveVars>>

SubcommandNext == SubcommandCall

SpecSubcommand == SubcommandInit /\ [][SubcommandNext]_vars

\* The file holds a document with the required members.
WholeDocument(file) ==
    file.kind = "document" /\ {"sprint_id", "created_at"} \subseteq DOMAIN file.text[2]

\* C26: load_state raises for a state file that is not valid JSON or lacks a
\* required key and returns None only when there is no file; each of status,
\* add, remove, replan, pause, resume and cancel raises on a missing run and
\* on a state file that cannot be loaded, before its body is entered, the
\* state file being as it was (none is created for a missing run).
C26_StateErrorsFatal ==
    h_out # <<>>
    => LET file == h_in.file
           loaded == load_state(file)
           out == h_out[1]
       IN /\ file.kind = "garbage" => loaded.raised = "RuntimeError"
          /\ (file.kind = "document" /\ ~WholeDocument(file))
             => loaded.raised = "RuntimeError"
          /\ (loaded.raised = None /\ ~loaded.found) <=> file.kind = "absent"
          /\ ~WholeDocument(file)
             => /\ out.raised # None
                /\ ~out.entered
                /\ out.file = file
          /\ out.entered => (WholeDocument(file) /\ out.raised = None)

\* pause on a missing run raised and left no state file behind.
C26_Witness ==
    /\ h_out # <<>>
    /\ h_in.cmd = "pause"
    /\ h_in.file = NoFile
    /\ h_out[1].raised = "RuntimeError"
    /\ ~h_out[1].entered
    /\ h_out[1].file = NoFile

\* ------------------------------- auto_execute: the head of one phase

\* The tools the availability feed reports on.
ModelNames == {"claude", "codex", "gemini"}

\* options.get("models", "claude,codex,gemini") split at the commas.
DefaultModels == <<"claude", "codex", "gemini">>

\* Values of the models option: the default, other lists, the empty string.
ModelLists == {DefaultModels, <<"codex", "claude">>, <<"gemini">>, <<>>}

\* What the feed's JSON holds for one tool: no entry, an entry that is not an
\* object, an object without error, an object with an error.
ToolReports == {"absent", "scalar", "ok", "error"}

\* Outcomes of running `npx cclimits --json`: the run raises (npx missing),
\* exits non-zero, prints text that is not JSON, prints JSON that is not an
\* object, or prints an object with an entry per tool.
Feeds ==
    {[kind |-> k, tools |-> [m \in ModelNames |-> "absent"]] :
        k \in {"raises", "nonzero", "badjson", "notdict"}}
    \cup {[kind |-> "tools", tools |-> t] :
            t \in {f \in [ModelNames -> ToolReports] :
                      f["claude"] # "scalar" /\ f["gemini"] # "scalar"}}

\* _cclimits_availability: the map tool -> bool, empty on every failure.
_cclimits_availability(feed) ==
    IF feed.kind # "tools" THEN [m \in {} |-> TRUE]
    ELSE [m \in {k \in ModelNames : feed.tools[k] \in {"ok", "error"}} |->
             feed.tools[m] = "ok"]

\* availability.get(m) is False
ReportedUnavailable(availability, m) ==
    m \in DOMAIN availability /\ ~availability[m]

\* The position in the list of the first model that is not reported
\* unavailable, 0 when the inner for loop ends without a break.
FirstUsable(availability, models_list) ==
    IF \E k \in 1..Len(models_list) : ~ReportedUnavailable(availability, models_list[k])
    THEN CHOOSE k \in 1..Len(models_list) :
            /\ ~ReportedUnavailable(availability, models_list[k])
            /\ \A j \in 1..(k - 1) : ReportedUnavailable(availability, models_list[j])
    ELSE 0

\* p.get("model") or "codex"
ModelOf(p) == IF p.model = None THEN "codex" ELSE p.model

\* ReassignModel that takes the head of the list without asking the feed
\* about it.
ReassignModel_FirstListed(p, availability, models_list) ==
    IF /\ DOMAIN availability # {}
       /\ ReportedUnavailable(availability, ModelOf(p))
       /\ models_list # <<>>
    THEN models_list[1]
    ELSE p.model

\* Lines 1549-1554: the value of p["model"] after the availability check.
ReassignModel(p, availability, models_list) ==
    IF /\ DOMAIN availability # {}
       /\ ReportedUnavailable(availability, ModelOf(p))
       /\ FirstUsable(availability, models_list) # 0
    THEN models_list[FirstUsable(availability, models_list)]
    ELSE p.model

\* PhaseHead that consults the feed for every prompt of the phase before it
\* looks for pending ones.
PhaseHead_CheckFirst(state, k, feed, models_list) ==
    LET s1 == [state EXCEPT !.current_phase = k]
        phase == s1.phases[k]
        run == Runnable(s1, phase)
        availability == _cclimits_availability(feed)
        s2 == [s1 EXCEPT !.prompts =
                 [i \in DOMAIN s1.prompts |->
                    IF i \in Range(phase)
                    THEN [s1.prompts[i] EXCEPT
                            !.model = ReassignModel(s1.prompts[i], availability, models_list)]
                    ELSE s1.prompts[i]]]
        batch == Batch(run, 0, MaxParallel)
    IN IF run = <<>>
       THEN [state |-> s2, phase_index |-> k + 1, consulted |-> TRUE, launched |-> <<>>]
       ELSE [state |-> MarkAll(s2, batch, "in_progress"), phase_index |-> k,
             consulted |-> TRUE,
             launched |-> [j \in 1..Len(batch) |->
                             <<batch[j], ModelOf(s2.prompts[batch[j]])>>]]

\* Lines 1526-1591 for the first batch of a phase: the pointer, the pending
\* prompts, the availability check, the batch marked in_progress and the
\* workers started (prompt, model). Without pending prompts only the pointer
\* is written and the loop goes to the next phase.
PhaseHead(state, k, feed, models_list) ==
    LET s1 == [state EXCEPT !.current_phase = k]
        phase == s1.phases[k]
        run == Runnable(s1, phase)
        availability == _cclimits_availability(feed)
        s2 == [s1 EXCEPT !.prompts =
                 [i \in DOMAIN s1.prompts |->
                    IF i \in Range(run)
                    THEN [s1.prompts[i] EXCEPT
                            !.model = ReassignModel(s1.prompts[i], availability, models_list)]
                    ELSE s1.prompts[i]]]
        batch == Batch(run, 0, MaxParallel)
    IN IF run = <<>>
       THEN [state |-> s1, phase_index |-> k + 1, consulted |-> FALSE, launched |-> <<>>]
       ELSE [state |-> MarkAll(s2, batch, "in_progress"), phase_index |-> k,
             consulted |-> TRUE,
             launched |-> [j \in 1..Len(batch) |->
                             <<batch[j], ModelOf(s2.prompts[batch[j]])>>]]

\* A prompt of a run at the head of a phase: its status with the timestamps
\* update_prompt_status leaves for it, and its model (None: no model key).
HeadPrompts ==
    {[status |-> st,
      started_at |-> IF st \in {"in_progress", "completed"} THEN PastStamp ELSE None,
      finished_at |-> IF st \in {"completed", "skipped"} THEN PastStamp ELSE None,
      model |-> m] :
        st \in {"pending", "in_progress", "completed", "skipped"},
        m \in {None, "claude", "codex"}}

\* Two prompts in one phase or in two; the loop is at any phase from the
\* stored pointer on.
HeadInit ==
    /\ \E ps \in [1..2 -> HeadPrompts], phases \in {<< <<1, 2>> >>, << <<1>>, <<2>> >>},
          feed \in Feeds, models_list \in ModelLists :
          \E k \in 1..Len(phases) :
             h_in = [state |-> [prompts |-> ps, phases |-> phases, current_phase |-> 1],
                     phase_index |-> k, feed |-> feed, models |-> models_list]
    /\ h_out = <<>>
    /\ RunParked /\ TopoParked /\ MarkParked /\ LoopParked /\ SaveParked

\* One pass of the while loop of auto_execute up to the workers started.
HeadCall ==
    /\ h_out = <<>>
    /\ h_out' = <<PhaseHead(h_in.state, h_in.phase_index, h_in.feed, h_in.models)>>
    /\ UNCHANGED <<h_in, runVars, topoVars, markVars, loopVars, saveVars>>

HeadNext == HeadCall

SpecHead == HeadInit /\ [][HeadNext]_vars

\* The pending prompts of the phase the loop is at.
HeadPending ==
    {i \in Range(h_in.state.phases[h_in.phase_index]) :
        h_in.state.prompts[i].status = "pending"}

\* C27: when no prompt of the phase is pending, the pass writes the phase
\* pointer and nothing else: every prompt keeps its status, timestamps and
\* model, the availability feed is not run, no worker is started, and the
\* loop moves to the next phase.
C27_PhaseAdvanceOnlyPointer ==
    (h_out # <<>> /\ HeadPending = {})
    => /\ h_out[1].state = [h_in.state EXCEPT !.current_phase = h_in.phase_index]
       /\ h_out[1].state.prompts = h_in.state.prompts
       /\ h_out[1].launched = <<>>
       /\ ~h_out[1].consulted
       /\ h_out[1].phase_index = h_in.phase_index + 1

\* The second phase holds a completed prompt whose model the feed reports
\* unavailable while another model is usable; the pointer moves from 1 to 2.
C27_Witness ==
    /\ h_out # <<>>
    /\ h_in.phase_index = 2
    /\ h_in.state.prompts[2].status = "completed"
    /\ h_in.state.prompts[2].model = "codex"
    /\ h_in.feed.kind = "tools"
    /\ h_in.feed.tools["codex"] = "error"
    /\ h_in.feed.tools["claude"] = "ok"
    /\ h_in.models = DefaultModels
    /\ h_out[1].state.current_phase = 2
    /\ h_out[1].state.prompts[2].model = "codex"

\* The feed reports model m unavailable: its entry carries an error.
FeedUnavailable(m) == h_in.feed.kind = "tools" /\ h_in.feed.tools[m] = "error"

\* The feed is absent, fails or reports on no tool.
FeedSilent ==
    \/ h_in.feed.kind # "tools"
    \/ \A m \in ModelNames : h_in.feed.tools[m] \in {"absent", "scalar"}

\* The models of the configured list the feed does not report unavailable.
UsableListed == {k \in 1..Len(h_in.models) : ~FeedUnavailable(h_in.models[k])}

\* The model of prompt i was changed by the pass.
Reassigned(i) == h_out[1].state.prompts[i].model # h_in.state.prompts[i].model

\* C28 as stated: a pending prompt of the phase is reassigned exactly when
\* the feed reports its model unavailable, and then to the first model of
\* the configured list that is not reported unavailable.
C28_ReassignedExactlyWhenUnavailable ==
    h_out # <<>>
    => \A i \in HeadPending :
          /\ Reassigned(i) <=> FeedUnavailable(ModelOf(h_in.state.prompts[i]))
          /\ Reassigned(i)
             => /\ UsableListed # {}
                /\ h_out[1].state.prompts[i].model =
                      h_in.models[CHOOSE k \in UsableListed : \A j \in UsableListed : k <= j]

\* C28: a pending prompt of the phase is reassigned exactly when the feed
\* reports its model unavailable and some model of the configured list is
\* not reported unavailable, and then to the first such model of the list;
\* otherwise it keeps its model. No other prompt is reassigned. When the feed
\* is absent, fails or reports nothing, nobody is reassigned. In every case
\* the first batch is started, each worker with the model of its prompt.
C28_AvailabilityAdvisory ==
    h_out # <<>>
    => /\ \A i \in HeadPending :
             /\ Reassigned(i) <=> /\ FeedUnavailable(ModelOf(h_in.state.prompts[i]))
                                  /\ UsableListed # {}
             /\ Reassigned(i)
                => h_out[1].state.prompts[i].model =
                      h_in.models[CHOOSE k \in UsableListed : \A j \in UsableListed : k <= j]
       /\ \A i \in DOMAIN h_in.state.prompts \ HeadPending : ~Reassigned(i)
       /\ FeedSilent => \A i \in DOMAIN h_in.state.prompts : ~Reassigned(i)
       /\ HeadPending # {}
          => /\ h_out[1].launched # <<>>
             /\ \A j \in 1..Len(h_out[1].launched) :
                   LET pid == h_out[1].launched[j][1]
                   IN /\ pid \in HeadPending
                      /\ h_out[1].launched[j][2] = ModelOf(h_out[1].state.prompts[pid])
                      /\ h_out[1].state.prompts[pid].status = "in_progress"

\* codex and claude are reported unavailable, gemini is not: the pending
\* prompt on codex is started on gemini, the third model of the list.
C28_Witness ==
    /\ h_out # <<>>
    /\ h_in.state.phases = << <<1, 2>> >>
    /\ h_in.state.prompts[1].status = "pending"
    /\ h_in.state.prompts[1].model = "codex"
    /\ h_in.feed.kind = "tools"
    /\ h_in.feed.tools = [m \in ModelNames |-> IF m = "gemini" THEN "ok" ELSE "error"]
    /\ h_in.models = DefaultModels
    /\ h_out[1].state.prompts[1].model = "gemini"
    /\ h_out[1].launched[1] = <<1, "gemini">>

\* ------------------------- the dependency graph at plan creation and replan

\* The prompts of the run the graph is built for.
GraphIds == {1, 2}

\* The numbers a prompt's text can name: the prompts of the run and a number
\* that is no prompt of the run.
GraphNumbers == GraphIds \cup {3}

\* _dispatch with --from-existing: a number named in a prompt's analysis
\* becomes a dependency when a prompt of the run has that number (the prompt's
\* own number included); the producers of the files it references are added,
\* the prompt itself excepted.
ExistingPromptDeps(analysis, linked) ==
    [p \in GraphIds |-> (analysis[p] \cap GraphIds) \cup (linked[p] \ {p})]

\* build_dependency_graph. With prompt_dependencies (--from-existing) the lists
\* are taken as given. Otherwise the slug graph of analyze_spec is mapped to
\* prompt ids, and when that leaves every list empty the lists are parsed from
\* the prompt texts.
build_dependency_graph(mode, analysis, linked, text) ==
    IF mode = "existing" THEN ExistingPromptDeps(analysis, linked)
    ELSE IF \A p \in GraphIds : linked[p] = {}
         THEN [p \in GraphIds |-> text[p]]
         ELSE [p \in GraphIds |-> linked[p]]

\* The state _dispatch saves after plan creation.
PlannedState(deps) ==
    LET phases == generate_execution_plan(GraphIds, deps)
    IN [prompts |-> [p \in GraphIds |-> NewPrompt],
        dependencies |-> deps,
        phases |-> phases,
        current_phase |-> 1,
        total_phases |-> Len(phases),
        paused_at |-> None,
        options |-> [auto_execute |-> FALSE, max_parallel |-> MaxParallel]]

\* The run is planned from existing prompts (analysis: the numbers each
\* prompt's content names; linked: the producers of the files it references)
\* or from a specification (linked: the slug graph, which analyze_spec keeps
\* free of self-references); text: the numbers the prompt files name.
GraphInit ==
    /\ \E mode \in {"existing", "spec"},
          analysis \in [GraphIds -> SUBSET GraphNumbers],
          linked \in {f \in [GraphIds -> SUBSET GraphIds] : \A p \in GraphIds : p \notin f[p]},
          text \in [GraphIds -> SUBSET GraphNumbers] :
          /\ mode = "spec" => analysis = [p \in GraphIds |-> {}]
          /\ h_in = [mode |-> mode, analysis |-> analysis, linked |-> linked, text |-> text]
    /\ h_out = <<>>
    /\ RunParked /\ TopoParked /\ MarkParked /\ LoopParked /\ SaveParked

\* Plan creation: the graph is built and stored in the state.
GraphPlan ==
    /\ h_out = <<>>
    /\ h_out' = <<PlannedState(build_dependency_graph(h_in.mode, h_in.analysis,
                                                      h_in.linked, h_in.text))>>
    /\ UNCHANGED <<h_in, runVars, topoVars, markVars, loopVars, saveVars>>

\* cmd_replan on the planned run: the graph is rebuilt from the prompt files.
GraphReplan ==
    /\ Len(h_out) = 1
    /\ h_out' = Append(h_out, cmd_replan(h_out[1], h_in.text))
    /\ UNCHANGED <<h_in, runVars, topoVars, markVars, loopVars, saveVars>>

GraphNext == GraphPlan \/ GraphReplan

SpecGraph == GraphInit /\ [][GraphNext]_vars

\* C29: after plan creation and after a replan, no prompt is listed among its
\* own dependencies and every dependency listed is a prompt of the run.
C29_DependencyGraphClosed ==
    \A k \in 1..Len(h_out) :
       \A p \in DOMAIN h_out[k].dependencies :
          /\ p \notin h_out[k].dependencies[p]
          /\ h_out[k].dependencies[p] \subseteq DOMAIN h_out[k].prompts

\* ----------------------------------------------- prompts are never deleted

\* One step of the run, seen on the state file: every prompt of the list is
\* still in the list; a prompt that becomes skipped keeps its place in the
\* list and its other fields but the finish time; no skipped prompt is in
\* the phases.
ItemsKept ==
    /\ DOMAIN disk.prompts \subseteq DOMAIN disk'.prompts
    /\ \A p \in DOMAIN disk.prompts :
          (disk.prompts[p].status # "skipped" /\ disk'.prompts[p].status = "skipped")
          => disk'.prompts[p] = [disk.prompts[p] EXCEPT !.status = "skipped",
                                                        !.finished_at = _now_iso]
    /\ \A p \in DOMAIN disk'.prompts :
          disk'.prompts[p].status = "skipped" => p \notin PhaseNodes(disk'.phases)

\* C30: no step of add, remove, replan, pause, resume or auto_execute takes a
\* prompt out of the list; remove marks the prompt skipped and keeps it, and
\* the phases replanning produces hold no skipped prompt.
C30_ItemsNeverDeleted == [][ItemsKept]_vars

\* A prompt was removed and another was added afterwards: the removed one is
\* in the list as skipped and in no phase, the others are planned.
C30_Witness ==
    /\ Cardinality(DOMAIN disk.prompts) > InitItems
    /\ \E p \in DOMAIN disk.prompts :
          /\ disk.prompts[p].status = "skipped"
          /\ p \notin PhaseNodes(disk.phases)
          /\ \E q \in DOMAIN disk.prompts : q > p /\ q \in PhaseNodes(disk.phases)

\* ------------------------------- _topo_phases on lists in any order

\* sorted() on a list: insertion of each element at its place.
RECURSIVE InsertSorted(_, _)
InsertSorted(x, s) ==
    IF s = <<>> THEN <<x>>
    ELSE IF x <= Head(s) THEN <<x>> \o s
    ELSE <<Head(s)>> \o InsertSorted(x, Tail(s))

\* ListSorted that leaves the list as the set iteration produced it.
ListSorted_AsIs(s) == s

RECURSIVE ListSorted(_)
ListSorted(s) == IF s = <<>> THEN <<>> ELSE InsertSorted(Head(s), ListSorted(Tail(s)))

\* Iterating a Python set: the elements in the order this process's hashing
\* gives them (order: all identifiers, in that order).
SetIteration(S, order) == SelectSeq(order, LAMBDA n : n \in S)

\* The while loop of _topo_phases as the code runs it: remaining is a set,
\* the list comprehension walks it in iteration order, sorted() orders ready.
RECURSIVE TopoLoopListed(_, _, _, _)
TopoLoopListed(remaining, incoming, phases, order) ==
    IF remaining = {} THEN <<phases, remaining>>
    ELSE LET ready == ListSorted(SelectSeq(SetIteration(remaining, order),
                                           LAMBDA n : incoming[n] = {}))
         IN IF ready = <<>> THEN <<phases, remaining>>
            ELSE LET rest == remaining \ Range(ready)
                     inc2 == [n \in DOMAIN incoming |->
                                 IF n \in rest THEN incoming[n] \ Range(ready)
                                 ELSE incoming[n]]
                 IN TopoLoopListed(rest, inc2, Append(phases, ready), order)

\* _topo_phases on a node list and a map to dependency lists, both in the
\* order the caller built them, duplicates included.
TopoPhasesListed(nodes, deps, order) ==
    LET r == TopoLoopListed(Range(nodes),
                            [n \in Range(nodes) |->
                                IF n \in DOMAIN deps THEN Range(deps[n]) ELSE {}],
                            <<>>, order)
    IN <<r[1], ListSorted(SetIteration(r[2], order))>>

\* generate_execution_plan, lines 971-974, on the prompts in list order.
PlanPhasesListed(ids, deps, order) ==
    LET r == TopoPhasesListed(ListSorted(ids), deps, order)
    IN IF r[2] # <<>> THEN Append(r[1], r[2]) ELSE r[1]

\* The permutations of the identifiers.
Orders == {o \in [1..Cardinality(Ids) -> Ids] : Range(o) = Ids}

\* Dependency lists as they can be supplied: any order, with repetitions.
DepLists == SeqsUpTo(Ids, 2)

\* Node lists in any order, with repetitions; a dependency list per node.
ListedInit ==
    /\ \E nodes \in SeqsUpTo(Ids \ {MaxItems}, 3), order \in Orders :
          \E deps \in [Range(nodes) -> DepLists] :
             h_in = [nodes |-> nodes, deps |-> deps, order |-> order]
    /\ h_out = <<>>
    /\ RunParked /\ TopoParked /\ MarkParked /\ LoopParked /\ SaveParked

ListedCall ==
    /\ h_out = <<>>
    /\ h_out' = <<TopoPhasesListed(h_in.nodes, h_in.deps, h_in.order),
                  PlanPhasesListed(h_in.nodes, h_in.deps, h_in.order)>>
    /\ UNCHANGED <<h_in, runVars, topoVars, markVars, loopVars, saveVars>>

ListedNext == ListedCall

SpecListed == ListedInit /\ [][ListedNext]_vars

\* The graph the lists describe: the node set and the dependency sets.
GraphOf(deps) == [n \in DOMAIN deps |-> Range(deps[n])]

IsSorted(s) == \A a, b \in 1..Len(s) : a < b => s[a] < s[b]

\* C31: the phases and leftovers _topo_phases returns, and the phases of
\* generate_execution_plan, are a function of the node set and the dependency
\* sets alone: whatever the order and repetitions of the lists supplied and
\* whatever the iteration order of the sets, the result is the levelling of
\* the graph in round order, every phase sorted by identifier.
C31_LevellingDeterministic ==
    h_out # <<>>
    => LET canon == _topo_phases(sorted(Range(h_in.nodes)), GraphOf(h_in.deps))
       IN /\ h_out[1] = canon
          /\ h_out[2] = generate_execution_plan(Range(h_in.nodes), GraphOf(h_in.deps))
          /\ \A k \in 1..Len(h_out[1][1]) : IsSorted(h_out[1][1][k])
          /\ IsSorted(h_out[1][2])

\* Nodes supplied as 2, 1, 2 with the set iterated 2 before 1: both are free
\* and the single phase is 1, 2.
C31_Witness ==
    /\ h_out # <<>>
    /\ h_in.nodes = <<2, 1, 2>>
    /\ h_in.order[1] = 2
    /\ h_in.deps = (1 :> <<>> @@ 2 :> <<>>)
    /\ h_out[1] = << << <<1, 2>> >>, <<>> >>

\* ------------------------------------ merge_suggested_next_steps

\* Step texts as extract_next_steps can find them, over an upper-case letter,
\* a lower-case letter, a punctuation mark and a blank: empty, punctuation
\* only, and spellings of two different steps.
StepTexts ==
    {<<>>, <<"!">>, <<"a">>, <<"A">>, <<"a", "!">>, <<" ", "a">>, <<"a", "a">>, <<"A", "a">>}

\* re.sub(r"\s+", " ", s): a blank that follows a blank is dropped.
RECURSIVE CollapseBlanks(_)
CollapseBlanks(s) ==
    IF Len(s) < 2 THEN s
    ELSE IF s[1] = " " /\ s[2] = " " THEN CollapseBlanks(Tail(s))
    ELSE <<s[1]>> \o CollapseBlanks(Tail(s))

\* str.strip() after the blanks were collapsed.
Strip(s) ==
    LET a == IF s # <<>> /\ Head(s) = " " THEN Tail(s) ELSE s
    IN IF a # <<>> /\ a[Len(a)] = " " THEN SubSeq(a, 1, Len(a) - 1) ELSE a

\* normalize_next_step_key: lower case, punctuation removed, blanks collapsed
\* and stripped.
normalize_next_step_key(text) ==
    LET lowered == [k \in 1..Len(text) |-> IF text[k] = "A" THEN "a" ELSE text[k]]
        cleaned == SelectSeq(lowered, LAMBDA c : c # "!")
    IN Strip(CollapseBlanks(cleaned))

\* The keys of the stored steps.
StepKeys(steps) == {normalize_next_step_key(steps[k].text) : k \in 1..Len(steps)}

\* merge_suggested_next_steps that does not remember the keys it adds.
RECURSIVE merge_suggested_next_steps_NoSeen(_, _, _)
merge_suggested_next_steps_NoSeen(existing, new_steps, iteration) ==
    IF new_steps = <<>> THEN existing
    ELSE LET text == Head(new_steps).text
             key == normalize_next_step_key(text)
             rest == merge_suggested_next_steps_NoSeen(existing, Tail(new_steps), iteration)
         IN IF text = <<>> \/ key = <<>> \/ key \in StepKeys(existing)
            THEN rest
            ELSE SubSeq(rest, 1, Len(existing))
                 \o <<[text |-> text, original |-> Head(new_steps).original,
                       source_iteration |-> iteration]>>
                 \o SubSeq(rest, Len(existing) + 1, Len(rest))

\* merge_suggested_next_steps: the list stored in the state after the call.
RECURSIVE merge_suggested_next_steps(_, _, _)
merge_suggested_next_steps(existing, new_steps, iteration) ==
    IF new_steps = <<>> THEN existing
    ELSE LET text == Head(new_steps).text
             key == normalize_next_step_key(text)
         IN IF text = <<>> \/ key = <<>> \/ key \in StepKeys(existing)
            THEN merge_suggested_next_steps(existing, Tail(new_steps), iteration)
            ELSE merge_suggested_next_steps(
                    Append(existing, [text |-> text, original |-> Head(new_steps).original,
                                      source_iteration |-> iteration]),
                    Tail(new_steps), iteration)

\* What extract_next_steps returns for a log: up to two steps (a log can hold
\* several next-steps sections, so a key can come twice).
StepLists ==
    {[k \in 1..Len(q) |-> [text |-> q[k], original |-> q[k]]] : q \in SeqsUpTo(StepTexts, 2)}

\* MergeIteration that merges only when the iteration did not complete.
MergeIteration_OnRetryOnly(state, new_steps, marker_found) ==
    LET steps == IF new_steps # <<>> /\ ~marker_found
                 THEN merge_suggested_next_steps(state.steps, new_steps, state.iteration)
                 ELSE state.steps
    IN IF marker_found THEN [state EXCEPT !.steps = steps, !.status = "completed"]
       ELSE IF state.iteration >= MaxIter
            THEN [state EXCEPT !.steps = steps, !.status = "max_iterations_reached"]
            ELSE [state EXCEPT !.steps = steps, !.iteration = @ + 1]

\* Lines 1555-1611 for the suggestions: the steps of this iteration's log are
\* merged before the outcome is looked at, then the loop ends or goes on and
\* the state is saved.
MergeIteration(state, new_steps, marker_found) ==
    LET steps == IF new_steps # <<>>
                 THEN merge_suggested_next_steps(state.steps, new_steps, state.iteration)
                 ELSE state.steps
    IN IF marker_found THEN [state EXCEPT !.steps = steps, !.status = "completed"]
       ELSE IF state.iteration >= MaxIter
            THEN [state EXCEPT !.steps = steps, !.status = "max_iterations_reached"]
            ELSE [state EXCEPT !.steps = steps, !.iteration = @ + 1]

\* create_loop_state: no suggestions, iteration 1.
MergeInit ==
    /\ h_in = [steps |-> <<>>, iteration |-> 1, status |-> "running"]
    /\ h_out = <<>>
    /\ RunParked /\ TopoParked /\ MarkParked /\ LoopParked /\ SaveParked

\* One iteration of the loop with the steps its log holds and its outcome.
MergeStep ==
    /\ h_in.status = "running"
    /\ \E new_steps \in StepLists, marker_found \in BOOLEAN :
          /\ h_in' = MergeIteration(h_in, new_steps, marker_found)
          /\ h_out' = <<[new_steps |-> new_steps, marker_found |-> marker_found,
                         iteration |-> h_in.iteration]>>
    /\ UNCHANGED <<runVars, topoVars, markVars, loopVars, saveVars>>

MergeNext == MergeStep

SpecMerge == MergeInit /\ [][MergeNext]_vars

\* No two stored steps have the same normalized key, and none has an empty one.
StepsDistinct ==
    /\ \A a, b \in 1..Len(h_in.steps) :
          a # b => normalize_next_step_key(h_in.steps[a].text)
                   # normalize_next_step_key(h_in.steps[b].text)
    /\ <<>> \notin StepKeys(h_in.steps)

\* One iteration: the stored steps stay where they are, every step of the log
\* with a key is stored whatever the outcome, the new entries carry the
\* iteration's number, and merging the same steps once more changes nothing.
StepsMerged ==
    LET new == h_out'[1].new_steps
    IN /\ IsPrefix(h_in.steps, h_in'.steps)
       /\ \A k \in 1..Len(new) :
             normalize_next_step_key(new[k].text) # <<>>
             => normalize_next_step_key(new[k].text) \in StepKeys(h_in'.steps)
       /\ \A k \in (Len(h_in.steps) + 1)..Len(h_in'.steps) :
             /\ h_in'.steps[k].source_iteration = h_out'[1].iteration
             /\ \E j \in 1..Len(new) : new[j].text = h_in'.steps[k].text
       /\ merge_suggested_next_steps(h_in'.steps, new, h_in'.iteration) = h_in'.steps

\* C32: after any sequence of iterations no two stored suggestions share a
\* normalized key; every iteration, completed or not, stores the suggestions
\* of its log that are new, keeps the stored ones in place, and merging the
\* same suggestions again adds nothing.
C32_SuggestionsMerged == [](StepsDistinct) /\ [][StepsMerged]_vars

\* Two iterations: the first stored "A", the second, which completed the
\* loop, offered "a!" (same key) and "aa": only "aa" was added, after "A".
C32_Witness ==
    /\ h_out # <<>>
    /\ h_out[1].marker_found
    /\ h_out[1].iteration = 2
    /\ h_out[1].new_steps = <<[text |-> <<"a", "!">>, original |-> <<"a", "!">>],
                              [text |-> <<"a", "a">>, original |-> <<"a", "a">>]>>
    /\ h_in.steps = <<[text |-> <<"A">>, original |-> <<"A">>, source_iteration |-> 1],
                      [text |-> <<"a", "a">>, original |-> <<"a", "a">>,
                       source_iteration |-> 2]>>

\* ------------------------------------------ dependencies gate execution

\* The prompts a step of auto_execute marks in_progress.
MarkedInProgress ==
    {p \in DOMAIN mem.prompts :
        /\ p \in DOMAIN mem'.prompts
        /\ mem.prompts[p].status # "in_progress"
        /\ mem'.prompts[p].status = "in_progress"}

\* Every prompt marked in_progress that is on no dependency cycle has all its
\* dependencies completed.
DependenciesCompleted ==
    \A p \in MarkedInProgress :
       ~OnCycle(p, mem'.dependencies)
       => \A d \in DepsGet(mem'.dependencies, p) :
             d \in DOMAIN mem'.prompts /\ mem'.prompts[d].status = "completed"

\* C33: whenever auto_execute marks a prompt in_progress that lies on no
\* dependency cycle, every prompt listed in its dependencies is completed.
C33_DependenciesGateExecution == [][DependenciesCompleted]_vars

\* --------------------------------------------------- truthful completion

\* C34: when auto_execute has reported the sprint complete (the pointer is
\* set past the last phase), every prompt that appears in a phase is
\* completed: none is pending, in_progress or failed.
C34_CompletionTruthful ==
    outcome = "complete"
    => /\ disk.current_phase = Len(disk.phases) + 1
       /\ \A p \in PhaseNodes(disk.phases) : disk.prompts[p].status = "completed"

\* ------------------------- subcommands while auto_execute is dispatching

\* The dispatch loop is running in its process.
Dispatching == pc \in {"loop", "batch", "wait"}

\* cmd_pause from another shell: the state is loaded from the file, paused_at
\* is set and the state is saved. h_in notes what the other processes saved.
PauseDuring ==
    /\ Dispatching
    /\ disk' = [disk EXCEPT !.paused_at = _now_iso]
    /\ h_in' = [h_in EXCEPT !.paused = TRUE]
    /\ UNCHANGED <<files, pc, mem, options, phase_index, runnable, bi, procs, wi, proc,
                   outcome, hist, h_out, topoVars, markVars, loopVars, saveVars>>

\* cmd_remove from another shell: load, mark skipped, save, replan, save.
RemoveDuring ==
    /\ Dispatching
    /\ \E pid \in DOMAIN disk.prompts :
          /\ disk' = cmd_replan(update_prompt_status(disk, pid, "skipped"), files)
          /\ h_in' = [h_in EXCEPT !.removed = @ \cup {pid}]
    /\ UNCHANGED <<files, pc, mem, options, phase_index, runnable, bi, procs, wi, proc,
                   outcome, hist, h_out, topoVars, markVars, loopVars, saveVars>>

\* A planned run; no other process has written yet.
SharedInit ==
    /\ RunInit
    /\ h_in = [paused |-> FALSE, removed |-> {}]
    /\ h_out = <<>>
    /\ TopoParked /\ MarkParked /\ LoopParked /\ SaveParked

\* The first auto_execute of a planned run from start to end, with pause and
\* remove arriving from other processes while it dispatches. (Every phase of
\* the loaded plan holds pending prompts, so no phase is passed over.)
SharedNext ==
    \/ AEStart
    \/ PhaseEnter
    \/ BatchStart
    \/ \E i \in Ids : WorkerExit(i)
    \/ Collect
    \/ BatchHalt
    \/ BatchNext
    \/ PhaseDone
    \/ Complete
    \/ PauseDuring
    \/ RemoveDuring

SpecShared == SharedInit /\ [][SharedNext]_vars

\* C35: what another process saved while auto_execute was dispatching is in
\* the state file after every later save of auto_execute: a pause is still
\* set, a removed prompt is still skipped.
C35_NoLostUpdates ==
    /\ h_in.paused => disk.paused_at # None
    /\ \A p \in h_in.removed : disk.prompts[p].status = "skipped"

\* ----------------------------- auto_execute without the loop option

\* The prompts of the batch.
SingleItems == {1, 2}

\* The "execution" member executor.py prints in single-run mode, as the
\* dispatcher reads it: run_cli's status and no final_status.
SingleRunStdout(status) ==
    [parse |-> "value", is_dict |-> TRUE, error |-> "absent", prompts_kind |-> "list",
     prompts |-> <<[final_status |-> "absent", status |-> status]>>]

\* executor.py main, except branch: {"error": ...} is printed, exit code 1.
ErrorStdout ==
    [parse |-> "value", is_dict |-> TRUE, error |-> "msg", prompts_kind |-> "absent",
     prompts |-> <<>>]

\* Nothing was printed yet.
NoStdout ==
    [parse |-> "error", is_dict |-> FALSE, error |-> "absent", prompts_kind |-> "absent",
     prompts |-> <<>>]

\* A planned batch: every prompt pending with its model; no executor was
\* called, no CLI is running.
SingleInit ==
    /\ \E models \in [SingleItems -> ModelNames] :
          h_in = [p \in SingleItems |->
                    [model |-> models[p], status |-> "pending", stage |-> "planned",
                     calls |-> 0, returncode |-> 0, stdout |-> NoStdout, cli |-> "none"]]
    /\ h_out = <<>>
    /\ RunParked /\ TopoParked /\ MarkParked /\ LoopParked /\ SaveParked

\* auto_execute marks the prompt in_progress and starts executor.py with
\* --model and --run, without --loop (options.loop is off).
SingleLaunch(p) ==
    /\ h_in[p].stage = "planned"
    /\ h_in' = [h_in EXCEPT ![p].status = "in_progress", ![p].stage = "executor",
                            ![p].calls = @ + 1]
    /\ UNCHANGED <<h_out, runVars, topoVars, markVars, loopVars, saveVars>>

\* executor.py main, standard single-run mode. Without a CLI command (claude)
\* the execution is {"status": "subagent_required"}; otherwise run_cli starts
\* the CLI detached and returns {"status": "running"} at once; the result is
\* printed and the executor exits 0. When Popen raises, {"error": ...} is
\* printed and the exit code is 1.
SingleExecutor(p) ==
    /\ h_in[p].stage = "executor"
    /\ \E popen_ok \in BOOLEAN :
          h_in' = [h_in EXCEPT ![p] =
                     IF @.model = "claude"
                     THEN [@ EXCEPT !.stage = "exited", !.returncode = 0,
                                    !.stdout = SingleRunStdout("subagent_required")]
                     ELSE IF popen_ok
                     THEN [@ EXCEPT !.stage = "exited", !.returncode = 0,
                                    !.stdout = SingleRunStdout("running"),
                                    !.cli = "running"]
                     ELSE [@ EXCEPT !.stage = "exited", !.returncode = 1,
                                    !.stdout = ErrorStdout]]
    /\ UNCHANGED <<h_out, runVars, topoVars, markVars, loopVars, saveVars>>

\* The detached CLI ends, at any time; nobody waits for it.
SingleCliExit(p) ==
    /\ h_in[p].cli = "running"
    /\ \E r \in {"ok", "failed"} : h_in' = [h_in EXCEPT ![p].cli = r]
    /\ UNCHANGED <<h_out, runVars, topoVars, markVars, loopVars, saveVars>>

\* auto_execute, lines 1596-1611: communicate() returns when executor.py has
\* exited; the prompt is marked by _interpret_executor_result.
SingleCollect(p) ==
    /\ h_in[p].stage = "exited"
    /\ h_in' = [h_in EXCEPT ![p].stage = "collected",
                            ![p].status = DispatcherStatus(h_in[p].stdout,
                                                          h_in[p].returncode)]
    /\ UNCHANGED <<h_out, runVars, topoVars, markVars, loopVars, saveVars>>

SingleNext ==
    \E p \in SingleItems :
       \/ SingleLaunch(p)
       \/ SingleExecutor(p)
       \/ SingleCliExit(p)
       \/ SingleCollect(p)

SpecSingle == SingleInit /\ [][SingleNext]_vars

\* C36: with the loop option off every prompt is run by one executor
\* invocation, and a prompt whose invocation exited with code zero and
\* reported no error is marked completed.
C36_SingleRunCompleted ==
    \A p \in SingleItems :
       h_in[p].stage = "collected"
       => /\ h_in[p].calls = 1
          /\ (h_in[p].returncode = 0 /\ Falsy(h_in[p].stdout.error))
             => h_in[p].status = "completed"

\* ------------------------------------------- the loop's return

\* run_verification_loop_background returned an error without spawning the
\* loop: that result carries no final_status at all.
BackgroundRefused == l_result.status = "error" /\ l_result.final_status = None

\* C37: when run_verification_loop has returned, the persisted LoopState has
\* a terminal status and the result reports that status as final_status.
C37_ReturnsTerminal ==
    (l_pc = "returned" /\ ~BackgroundRefused)
    => /\ IsLoopState(l_file)
       /\ l_file.status \in TerminalStatuses
       /\ l_result.final_status = l_file.status

\* ------------------------------------------- one history entry per iteration

\* C38: in every persisted LoopState the history holds the iterations 1..n in
\* order, one entry each, and while the status is running the stored
\* iteration is len(history)+1, whatever crashes and resumes came before.
C38_HistoryOnePerIteration ==
    IsLoopState(l_file)
    => /\ \A k \in 1..Len(l_file.history) : l_file.history[k].iteration = k
       /\ l_file.status = "running"
          => l_file.iteration = Len(l_file.history) + 1

\* A resumed invocation has finished another iteration and saved it: two
\* entries persisted, the loop still running.
C38_Witness ==
    /\ l_pc = "loop"
    /\ l_obs.start.resumed
    /\ IsLoopState(l_file)
    /\ l_file.status = "running"
    /\ Len(l_file.history) = 2
    /\ Len(l_obs.start.history) = 1

\* ------------------------------------------- the phase pointer

\* C39: in every persisted RunState total_phases is the length of the phase
\* list and the pointer lies between 1 and total_phases + 1.
C39_PhasePointerInRange ==
    /\ disk.total_phases = Len(disk.phases)
    /\ 1 <= disk.current_phase
    /\ disk.current_phase <= disk.total_phases + 1

\* A prompt that had run in a later phase was removed and the plan rebuilt:
\* the phase list is shorter and the pointer stands just past its end.
C39_Witness ==
    /\ disk.total_phases >= 1
    /\ disk.current_phase = disk.total_phases + 1
    /\ \E p \in DOMAIN disk.prompts :
          /\ disk.prompts[p].status = "skipped"
          /\ disk.prompts[p].started_at # None
          /\ disk.dependencies[p] # {}
          /\ p \notin PhaseNodes(disk.phases)
          /\ \A q \in disk.dependencies[p] : disk.prompts[q].status = "completed"

\* ------------------------------------------- cmd_replan and the items

\* What _model_for_text finds in title, slug and analysis: a keyword of the
\* first tuple, else one of the second, else none.
TextKinds == {"architecture", "api", "plain"}

\* Lines 873-885: the preferred model of a text, or the head of the list.
_model_for_text(kind, available_models) ==
    LET preferred == IF kind = "architecture" THEN "claude"
                     ELSE IF kind = "api" THEN "gemini"
                     ELSE "codex"
    IN IF preferred \in Range(available_models) THEN preferred
       ELSE IF available_models # <<>> THEN available_models[1]
       ELSE "codex"

\* Lines 926-950: the model of every prompt, skipped ones included.
assign_models(kinds, available_models, feed) ==
    LET availability == _cclimits_availability(feed)
    IN [pid \in DOMAIN kinds |->
          LET model == _model_for_text(kinds[pid], available_models)
          IN IF /\ DOMAIN availability # {}
                /\ ReportedUnavailable(availability, model)
                /\ FirstUsable(availability, available_models) # 0
             THEN available_models[FirstUsable(availability, available_models)]
             ELSE model]

\* Lines 1238-1244: every prompt that is not skipped gets its assignment.
ReplanModels(prompts, assignments) ==
    [pid \in DOMAIN prompts |->
        IF prompts[pid].status = "skipped" THEN prompts[pid]
        ELSE [prompts[pid] EXCEPT !.model = assignments[pid]]]

\* Lines 1221-1266: cmd_replan on a state whose prompts carry their model.
ReplanState(state, f, kinds, models_list, feed) ==
    LET s1 == [state EXCEPT
                 !.prompts = ReplanModels(@, assign_models(kinds, models_list, feed))]
    IN cmd_replan(s1, f)

\* The feeds drawn for a replan: the tool raises, or reports on claude and
\* codex.
ReplanFeeds ==
    {fd \in Feeds : /\ fd.kind \in {"raises", "tools"}
                    /\ fd.tools["gemini"] = "absent"
                    /\ fd.tools["codex"] # "scalar"}

\* A run of two prompts, planned in one phase or two, the pointer at the
\* start or past the end; the prompt files name no dependency, the second
\* names the first, or each names the other.
ReplanInit ==
    /\ \E ps \in [1..2 -> HeadPrompts],
          phases \in {<< <<1, 2>> >>, << <<1>>, <<2>> >>},
          first \in BOOLEAN,
          f \in {[i \in Ids |-> {}],
                 [i \in Ids |-> IF i = 2 THEN {1} ELSE {}],
                 [i \in Ids |-> IF i = 2 THEN {1} ELSE IF i = 1 THEN {2} ELSE {}]},
          kind \in {"architecture", "plain"},
          models_list \in {DefaultModels, <<"codex", "claude">>, <<>>},
          feed \in ReplanFeeds :
          h_in = [state |-> [prompts |-> ps,
                             dependencies |-> [i \in 1..2 |-> {}],
                             phases |-> phases,
                             total_phases |-> Len(phases),
                             current_phase |-> IF first THEN 1 ELSE Len(phases) + 1],
                  files |-> f,
                  kinds |-> [i \in 1..2 |-> IF i = 1 THEN kind ELSE "plain"],
                  models |-> models_list,
                  feed |-> feed]
    /\ h_out = <<>>
    /\ RunParked /\ TopoParked /\ MarkParked /\ LoopParked /\ SaveParked

ReplanCall ==
    /\ h_out = <<>>
    /\ h_out' = <<ReplanState(h_in.state, h_in.files, h_in.kinds, h_in.models, h_in.feed)>>
    /\ UNCHANGED <<h_in, runVars, topoVars, markVars, loopVars, saveVars>>

ReplanNext == ReplanCall

SpecReplan == ReplanInit /\ [][ReplanNext]_vars

\* The dependency map and the phase list are those of the prompt files and
\* the prompts that are not skipped.
ReplanRebuilds ==
    h_out # <<>>
    => LET ids == DOMAIN h_in.state.prompts
           live == {p \in ids : h_in.state.prompts[p].status # "skipped"}
       IN /\ h_out[1].dependencies = [p \in ids |-> h_in.files[p] \ {p}]
          /\ h_out[1].phases = generate_execution_plan(live, h_out[1].dependencies)

\* No item is added or removed and none changes its status, started_at or
\* finished_at.
ReplanKeepsStatus ==
    h_out # <<>>
    => /\ DOMAIN h_out[1].prompts = DOMAIN h_in.state.prompts
       /\ \A p \in DOMAIN h_in.state.prompts :
             /\ h_out[1].prompts[p].status = h_in.state.prompts[p].status
             /\ h_out[1].prompts[p].started_at = h_in.state.prompts[p].started_at
             /\ h_out[1].prompts[p].finished_at = h_in.state.prompts[p].finished_at

\* C40: replan rebuilds the dependency map and the phase list from the
\* current items and leaves everything else about the items untouched: no
\* item is added or removed and every item is as it was.
C40_ReplanLeavesItems ==
    /\ ReplanRebuilds
    /\ ReplanKeepsStatus
    /\ h_out # <<>> => h_out[1].prompts = h_in.state.prompts
====
